---- MODULE Spec2Model ----
(***************************************************************************)
(* A model of aten/src/ATen/native_parse.py: the compiler that turns the   *)
(* `func` signature text of each native-function record into a             *)
(* declaration.  Text is kept as text: the signature is a string and the   *)
(* operators below split, strip and match it character by character, the   *)
(* way the Python code and its regular expressions do.                     *)
(*                                                                         *)
(* Python values are represented as follows.                               *)
(*   str              a TLA+ string                                        *)
(*   None or a str    <<>> for None, <<s>> for the string s                *)
(*   an absent key    <<>>, a present key <<v>>                            *)
(*   a decoded default value (bool, int, float or str): a tagged record    *)
(*   a raise          a result record with ok = FALSE and the raise site   *)
(***************************************************************************)
EXTENDS Integers, Sequences, FiniteSets, TLC

None == <<>>
Some(v) == <<v>>

(***************************************************************************)
(* Python's str operations.                                                *)
(***************************************************************************)
CharAt(s, i) == SubSeq(s, i, i)

StartsWith(s, p) == Len(s) >= Len(p) /\ SubSeq(s, 1, Len(p)) = p

EndsWith(s, p) == Len(s) >= Len(p) /\ SubSeq(s, Len(s) - Len(p) + 1, Len(s)) = p

\* s.find(sub, i): the first index >= i at which sub occurs in s, 0 for none.
RECURSIVE Find(_, _, _)
Find(s, sub, i) ==
    IF i + Len(sub) - 1 > Len(s) THEN 0
    ELSE IF SubSeq(s, i, i + Len(sub) - 1) = sub THEN i
    ELSE Find(s, sub, i + 1)

\* s.rfind(sub) scanning down from index i.
RECURSIVE RFind(_, _, _)
RFind(s, sub, i) ==
    IF i < 1 THEN 0
    ELSE IF i + Len(sub) - 1 <= Len(s) /\ SubSeq(s, i, i + Len(sub) - 1) = sub THEN i
    ELSE RFind(s, sub, i - 1)

\* sub in s
Contains(s, sub) == Find(s, sub, 1) # 0

\* s.split(sep)
RECURSIVE Split(_, _)
RECURSIVE SplitAt(_, _, _)
SplitAt(s, sep, k) ==
    IF k = 0 THEN <<s>>
    ELSE <<SubSeq(s, 1, k - 1)>> \o Split(SubSeq(s, k + Len(sep), Len(s)), sep)

Split(s, sep) == SplitAt(s, sep, Find(s, sep, 1))

\* s cut in two around the n characters at index k; s alone when k is 0
Cut(s, k, n) == IF k = 0 THEN <<s>> ELSE <<SubSeq(s, 1, k - 1), SubSeq(s, k + n, Len(s))>>

\* s.split(sep, 1)
Split1(s, sep) == Cut(s, Find(s, sep, 1), Len(sep))

\* s.rsplit(sep, 1)
RSplit1(s, sep) == Cut(s, RFind(s, sep, Len(s)), Len(sep))

\* s.lstrip(), s.rstrip() and s.strip(); the only white space of the inputs is " ".
RECURSIVE LStrip(_)
LStrip(s) == IF Len(s) > 0 /\ CharAt(s, 1) = " " THEN LStrip(SubSeq(s, 2, Len(s))) ELSE s

RECURSIVE RStripChar(_, _)
RStripChar(s, c) ==
    IF Len(s) > 0 /\ CharAt(s, Len(s)) = c THEN RStripChar(SubSeq(s, 1, Len(s) - 1), c) ELSE s

Strip(s) == RStripChar(LStrip(s), " ")

StripAll(parts) == [i \in 1..Len(parts) |-> Strip(parts[i])]

Digits == <<"0", "1", "2", "3", "4", "5", "6", "7", "8", "9">>

IsDigit(c) == \E d \in 1..10 : Digits[d] = c

DigitVal(c) == (CHOOSE d \in 1..10 : Digits[d] = c) - 1

AllDigits(s) == Len(s) > 0 /\ \A i \in 1..Len(s) : IsDigit(CharAt(s, i))

\* The value of a run of decimal digits.
RECURSIVE DecVal(_)
DecVal(s) ==
    IF Len(s) = 0 THEN 0
    ELSE 10 * DecVal(SubSeq(s, 1, Len(s) - 1)) + DigitVal(CharAt(s, Len(s)))

\* str(i) for a natural number i.
RECURSIVE Str(_)
Str(i) == IF i < 10 THEN Digits[i + 1] ELSE Str(i \div 10) \o Digits[(i % 10) + 1]

(***************************************************************************)
(* Results of code that may raise.                                         *)
(***************************************************************************)
Ok(v) == [ok |-> TRUE, err |-> "", val |-> v]
Raise(site) == [ok |-> FALSE, err |-> site, val |-> <<>>]

(***************************************************************************)
(* Decoded default values.                                                 *)
(***************************************************************************)
PyBool(b) == [tag |-> "bool", b |-> b, n |-> 0, e |-> 0, s |-> ""]
PyInt(n) == [tag |-> "int", b |-> FALSE, n |-> n, e |-> 0, s |-> ""]
\* the float m * 10^e, m not a multiple of 10 unless it is 0
PyFloat(m, e) == [tag |-> "float", b |-> FALSE, n |-> m, e |-> e, s |-> ""]
PyStr(s) == [tag |-> "str", b |-> FALSE, n |-> 0, e |-> 0, s |-> s]

(***************************************************************************)
(* Python's int(s) and float(s) on the numerals the schema language uses:  *)
(* an optional sign and decimal digits, for float also a fraction and an   *)
(* exponent.  Each gives <<>> where Python raises ValueError.              *)
(***************************************************************************)
Unsigned(s) ==
    IF Len(s) > 0 /\ CharAt(s, 1) \in {"+", "-"} THEN SubSeq(s, 2, Len(s)) ELSE s

Signum(s) == IF Len(s) > 0 /\ CharAt(s, 1) = "-" THEN -1 ELSE 1

SignedDigits(t) == IF AllDigits(Unsigned(t)) THEN Some(Signum(t) * DecVal(Unsigned(t))) ELSE None

PyIntOf(s) == SignedDigits(Strip(s))

\* m * 10^e with the trailing zeros of m moved into e
RECURSIVE NormFloat(_, _)
NormFloat(m, e) ==
    IF m = 0 THEN PyFloat(0, 0)
    ELSE IF m % 10 = 0 THEN NormFloat(m \div 10, e + 1)
    ELSE PyFloat(m, e)

\* sign, the integer and fraction digits of the mantissa, the exponent
FloatOfParts(sign, ip, fp, expo) ==
    IF /\ Len(ip) + Len(fp) > 0
       /\ \A i \in 1..Len(ip) : IsDigit(CharAt(ip, i))
       /\ \A i \in 1..Len(fp) : IsDigit(CharAt(fp, i))
       /\ expo # None
    THEN Some(NormFloat(sign * DecVal(ip \o fp), expo[1] - Len(fp)))
    ELSE None

FloatOfMantissa(sign, mant, expo) ==
    FloatOfParts(sign, mant[1], IF Len(mant) = 2 THEN mant[2] ELSE "", expo)

\* u is the numeral without its sign, ke the index of its exponent mark or 0
FloatAtExponent(sign, u, ke) ==
    IF ke = 0 THEN FloatOfMantissa(sign, Split1(u, "."), Some(0))
    ELSE FloatOfMantissa(sign, Split1(SubSeq(u, 1, ke - 1), "."),
                         SignedDigits(SubSeq(u, ke + 1, Len(u))))

FloatOfStripped(t) ==
    FloatAtExponent(Signum(t), Unsigned(t),
                    IF Contains(t, "e") THEN Find(Unsigned(t), "e", 1)
                    ELSE Find(Unsigned(t), "E", 1))

PyFloatOf(s) == FloatOfStripped(Strip(s))

(***************************************************************************)
(* temp_type_translations                                                  *)
(***************************************************************************)
temp_type_translations(typ) ==
    IF typ = "Tensor[]" THEN "TensorList"
    ELSE IF typ = "int[]" THEN "IntList"
    ELSE IF typ = "int" THEN "int64_t"
    ELSE IF typ = "float" THEN "double"
    ELSE typ

(***************************************************************************)
(* parse_default: the first branch that applies decides.  re.match of      *)
(* \[.*\] needs "[" first and a "]" anywhere after it.                     *)
(***************************************************************************)
\* lines 65-71: i is int(s) and f is float(s), each <<>> when it raises
\* lines 66-71 without the float attempt of lines 68-69
NumberOrTextIntegersOnly(s, i, f) ==
    IF i # None THEN Ok(PyInt(i[1]))
    ELSE Ok(PyStr(s))

NumberOrText(s, i, f) ==
    IF i # None THEN Ok(PyInt(i[1]))
    ELSE IF f # None THEN Ok(f[1])
    ELSE Ok(PyStr(s))

parse_default(s) ==
    IF s = "True" THEN Ok(PyBool(TRUE))
    ELSE IF s = "False" THEN Ok(PyBool(FALSE))
    ELSE IF s = "true" THEN Raise("parse_default:43")
    ELSE IF s = "false" THEN Raise("parse_default:46")
    ELSE IF s = "nullptr" THEN Ok(PyStr(s))
    ELSE IF s = "[]" THEN Ok(PyStr("{}"))
    ELSE IF StartsWith(s, "[") /\ Find(s, "]", 2) # 0
         THEN Ok(PyStr("{" \o SubSeq(s, 2, Len(s) - 1) \o "}"))
    ELSE IF s = "None" THEN Ok(PyStr("c10::nullopt"))
    ELSE IF s = "Mean" THEN Ok(PyStr("Reduction::Mean"))
    ELSE NumberOrText(s, PyIntOf(s), PyFloatOf(s))

(***************************************************************************)
(* sanitize_type and sanitize_types.  types[0] raises IndexError on "".    *)
(***************************************************************************)
sanitize_type(typ) == IF typ = "Generator*" THEN "Generator *" ELSE typ

SanitizeAll(parts) == [i \in 1..Len(parts) |-> sanitize_type(Strip(parts[i]))]

sanitize_types(types) ==
    IF Len(types) = 0 THEN Raise("sanitize_types:82")
    ELSE IF CharAt(types, 1) = "(" /\ CharAt(types, Len(types)) = ")"
         THEN Ok(SanitizeAll(Split(SubSeq(types, 2, Len(types) - 1), ",")))
    ELSE Ok(<<sanitize_type(types)>>)

(***************************************************************************)
(* get_annotation: re.match of the pattern  Tensor  any-text  "("  text    *)
(* of one character or more  ")".  The match starts at the first character *)
(* and need not reach the last one.  Both groups are greedy: the           *)
(* annotation ends at the last ")" of t, and it starts after the last "("  *)
(* that leaves it at least one character.                                  *)
(***************************************************************************)
RECURSIVE LastOpen(_, _)
LastOpen(t, i) ==
    IF i < 7 THEN 0
    ELSE IF CharAt(t, i) = "(" THEN i
    ELSE LastOpen(t, i - 1)

AnnotationBetween(t, open, close) ==
    IF open # 0
    THEN [t |-> SubSeq(t, 1, open - 1), annotation |-> Some(SubSeq(t, open + 1, close - 1))]
    ELSE [t |-> t, annotation |-> None]

AnnotationUpTo(t, close) ==
    AnnotationBetween(t, IF StartsWith(t, "Tensor") /\ close # 0 THEN LastOpen(t, close - 2)
                         ELSE 0, close)

get_annotation(t) == AnnotationUpTo(t, RFind(t, ")", Len(t)))

\* re.match(r'int\[(\d+)\]', typ): the digits of the match, <<>> for no match
RECURSIVE DigitRun(_, _)
DigitRun(s, i) ==
    IF i <= Len(s) /\ IsDigit(CharAt(s, i)) THEN CharAt(s, i) \o DigitRun(s, i + 1) ELSE ""

SizeAfter(typ, run) ==
    IF StartsWith(typ, "int[") /\ Len(run) > 0 /\ CharAt(typ, 5 + Len(run)) = "]"
    THEN Some(run) ELSE None

MatchIntSize(typ) == SizeAfter(typ, DigitRun(typ, 5))

\* re.search('(^__i|[^_]_$)', fn_name) is not None
\* line 248 with the pattern read as: ends with "_" and not with "__"
IsInplaceNameAnyTrailing(fn_name) ==
    \/ StartsWith(fn_name, "__i")
    \/ /\ EndsWith(fn_name, "_")
       /\ ~EndsWith(fn_name, "__")

IsInplaceName(fn_name) ==
    \/ StartsWith(fn_name, "__i")
    \/ /\ Len(fn_name) >= 2
       /\ CharAt(fn_name, Len(fn_name)) = "_"
       /\ CharAt(fn_name, Len(fn_name) - 1) # "_"

(***************************************************************************)
(* parse_return_arguments.  The slots are parsed in order and the first    *)
(* one that raises ends the call.  A slot is a dict with the keys type,    *)
(* name, output, annotation and, when it is named, field_name.             *)
(***************************************************************************)
\* lines 189-210 with the unnamed slots counted from 1
ReturnDictOneBased(ga, type_and_maybe_name, arg_idx, multiple_args, inplace) ==
    IF /\ Len(type_and_maybe_name) = 1
       /\ ga.t = "Tensor" /\ inplace
       /\ ~(ga.annotation # None /\ EndsWith(ga.annotation[1], "!"))
    THEN Raise("parse_return_arguments:193")
    ELSE Ok([type       |-> temp_type_translations(sanitize_type(ga.t)),
             name       |-> IF Len(type_and_maybe_name) # 1 THEN type_and_maybe_name[2]
                            ELSE IF ga.t = "Tensor" /\ inplace THEN "self"
                            ELSE IF ~multiple_args THEN "result"
                            ELSE "result" \o Str(arg_idx + 1),
             field_name |-> IF Len(type_and_maybe_name) # 1 THEN Some(type_and_maybe_name[2])
                            ELSE None,
             output     |-> TRUE,
             annotation |-> ga.annotation])

\* lines 189-210; ga is get_annotation of the slot's type text
ReturnDict(ga, type_and_maybe_name, arg_idx, multiple_args, inplace) ==
    IF /\ Len(type_and_maybe_name) = 1
       /\ ga.t = "Tensor" /\ inplace
       /\ ~(ga.annotation # None /\ EndsWith(ga.annotation[1], "!"))
    THEN Raise("parse_return_arguments:193")
    ELSE Ok([type       |-> temp_type_translations(sanitize_type(ga.t)),
             name       |-> IF Len(type_and_maybe_name) # 1 THEN type_and_maybe_name[2]
                            ELSE IF ga.t = "Tensor" /\ inplace THEN "self"
                            ELSE IF ~multiple_args THEN "result"
                            ELSE "result" \o Str(arg_idx),
             field_name |-> IF Len(type_and_maybe_name) # 1 THEN Some(type_and_maybe_name[2])
                            ELSE None,
             output     |-> TRUE,
             annotation |-> ga.annotation])

ReturnSlot(type_and_maybe_name, arg_idx, multiple_args, inplace) ==
    ReturnDict(get_annotation(type_and_maybe_name[1]), type_and_maybe_name, arg_idx,
               multiple_args, inplace)

RECURSIVE ReturnLoop(_, _, _, _)
RECURSIVE ReturnNext(_, _, _, _, _)
ReturnNext(parts, i, inplace, arguments, r) ==
    IF ~r.ok THEN r ELSE ReturnLoop(parts, i + 1, inplace, Append(arguments, r.val))

ReturnLoop(parts, i, inplace, arguments) ==
    IF i > Len(parts) THEN Ok(arguments)
    ELSE ReturnNext(parts, i, inplace, arguments,
                    ReturnSlot(StripAll(RSplit1(parts[i], " ")), i - 1, Len(parts) > 1, inplace))

parse_return_arguments(return_decl, inplace) ==
    IF Len(return_decl) = 0 THEN Raise("parse_return_arguments:181")
    ELSE ReturnLoop(Split(IF CharAt(return_decl, 1) = "("
                             /\ CharAt(return_decl, Len(return_decl)) = ")"
                          THEN SubSeq(return_decl, 2, Len(return_decl) - 1)
                          ELSE return_decl, ", "),
                    1, inplace, <<>>)

(***************************************************************************)
(* The variants key of a record is a YAML string or a YAML list of         *)
(* strings: kind "str" with the one text in items, or kind "list".         *)
(***************************************************************************)
VStr(text) == [kind |-> "str", items |-> <<text>>]
VList(items) == [kind |-> "list", items |-> items]

\* func.get(key, default) for the keys of a record
Get(opt, default) == IF opt = None THEN default ELSE opt[1]

\* func_decl.get('variants', []) not in [[], 'function', ['function']]
\* line 99 without the list ['function'] among the accepted values
VariantsNotFunctionText(func_decl) ==
    Get(func_decl.variants, VList(<<>>)) \notin {VList(<<>>), VStr("function")}

VariantsNotFunctionOnly(func_decl) ==
    Get(func_decl.variants, VList(<<>>))
        \notin {VList(<<>>), VStr("function"), VList(<<"function">>)}

(***************************************************************************)
(* parse_arguments: one argument token, lines 118-158.  An argument is a   *)
(* dict with the keys type, name, is_nullable, annotation and, when they   *)
(* apply, size, default, output, kwarg_only and field_name; output and     *)
(* kwarg_only are only ever set to True, so they are booleans here.  ctx   *)
(* holds arg_idx, is_out_fn, len(func_return) and kwarg_only.              *)
(***************************************************************************)
\* lines 141-158 without the rewrite of the type to IntList of line 145
ArgumentDictKeepsType(typ0, size, ns, dflt, annotation, ctx) ==
    Ok([type        |-> temp_type_translations(RStripChar(typ0, "?")),
        name        |-> ns[1],
        is_nullable |-> EndsWith(typ0, "?"),
        size        |-> IF size # None THEN Some(DecVal(size[1])) ELSE None,
        default     |-> IF Len(ns) = 2 THEN Some(dflt.val) ELSE None,
        output      |-> ctx.is_out_fn /\ ctx.arg_idx < ctx.n_returns,
        kwarg_only  |-> ctx.kwarg_only,
        annotation  |-> annotation,
        field_name  |-> None])

\* lines 141-158: typ0 is typ[0], size the match of int[N]
ArgumentDict(typ0, size, ns, dflt, annotation, ctx) ==
    Ok([type        |-> temp_type_translations(IF size # None THEN "IntList"
                                               ELSE RStripChar(typ0, "?")),
        name        |-> ns[1],
        is_nullable |-> EndsWith(typ0, "?"),
        size        |-> IF size # None THEN Some(DecVal(size[1])) ELSE None,
        default     |-> IF Len(ns) = 2 THEN Some(dflt.val) ELSE None,
        output      |-> ctx.is_out_fn /\ ctx.arg_idx < ctx.n_returns,
        kwarg_only  |-> ctx.kwarg_only,
        annotation  |-> annotation,
        field_name  |-> None])

\* lines 137-140: dflt is parse_default's result, typ sanitize_types's
ArgumentSanitized(typ, ns, dflt, annotation, ctx) ==
    IF ~dflt.ok THEN dflt
    ELSE IF ~typ.ok THEN typ
    ELSE IF Len(typ.val) # 1 THEN Raise("parse_arguments:140")
    ELSE ArgumentDict(typ.val[1], MatchIntSize(RStripChar(typ.val[1], "?")), ns, dflt,
                      annotation, ctx)

\* lines 127-137 without the rewrite of None after Tensor? of lines 131-132
ArgumentDefaultedUnrewritten(t, ns, annotation, ctx) ==
    ArgumentSanitized(sanitize_types(t), ns,
                      IF Len(ns) # 2 THEN Ok(<<>>)
                      ELSE IF t = "Generator*" /\ ns[2] = "None" THEN parse_default("nullptr")
                      ELSE parse_default(ns[2]),
                      annotation, ctx)

\* lines 127-139: t is the type after the Generator? translation
ArgumentDefaulted(t, ns, annotation, ctx) ==
    ArgumentSanitized(sanitize_types(t), ns,
                      IF Len(ns) # 2 THEN Ok(<<>>)
                      ELSE IF t = "Tensor?" /\ ns[2] = "None" THEN parse_default("[]")
                      ELSE IF t = "Generator*" /\ ns[2] = "None" THEN parse_default("nullptr")
                      ELSE parse_default(ns[2]),
                      annotation, ctx)

\* lines 121-128
ArgumentAnnotated(ga, name, ctx) ==
    ArgumentDefaulted(IF ga.t = "Generator?" THEN "Generator*" ELSE ga.t,
                      Split1(name, "="), ga.annotation, ctx)

ArgumentOf(type_and_name, ctx) ==
    ArgumentAnnotated(get_annotation(type_and_name[1]), type_and_name[2], ctx)

RECURSIVE ArgumentLoop(_, _, _, _, _, _)
RECURSIVE ArgumentNext(_, _, _, _, _, _, _)
RECURSIVE ArgumentToken(_, _, _, _, _, _, _)
\* line 158 and the next pass
ArgumentNext(tokens, i, is_out_fn, n_returns, kwarg_only, arguments, a) ==
    IF ~a.ok THEN a
    ELSE ArgumentLoop(tokens, i + 1, is_out_fn, n_returns, kwarg_only, Append(arguments, a.val))

\* lines 113-158 without the assignment kwarg_only = True of line 115
ArgumentTokenStarUnflagged(tokens, i, is_out_fn, n_returns, kwarg_only, arguments, type_and_name) ==
    IF type_and_name = <<"*">>
    THEN ArgumentLoop(tokens, i + 1, is_out_fn, n_returns, kwarg_only, arguments)
    ELSE IF Len(type_and_name) # 2 THEN Raise("parse_arguments:118")
    ELSE ArgumentNext(tokens, i, is_out_fn, n_returns, kwarg_only, arguments,
                      ArgumentOf(type_and_name,
                                 [arg_idx |-> i - 1, is_out_fn |-> is_out_fn,
                                  n_returns |-> n_returns, kwarg_only |-> kwarg_only]))

\* lines 113-158 without the assertion of line 114
ArgumentTokenStarUnchecked(tokens, i, is_out_fn, n_returns, kwarg_only, arguments, type_and_name) ==
    IF type_and_name = <<"*">>
    THEN ArgumentLoop(tokens, i + 1, is_out_fn, n_returns, TRUE, arguments)
    ELSE IF Len(type_and_name) # 2 THEN Raise("parse_arguments:118")
    ELSE ArgumentNext(tokens, i, is_out_fn, n_returns, kwarg_only, arguments,
                      ArgumentOf(type_and_name,
                                 [arg_idx |-> i - 1, is_out_fn |-> is_out_fn,
                                  n_returns |-> n_returns, kwarg_only |-> kwarg_only]))

\* lines 113-118
ArgumentToken(tokens, i, is_out_fn, n_returns, kwarg_only, arguments, type_and_name) ==
    IF type_and_name = <<"*">>
    THEN IF kwarg_only THEN Raise("parse_arguments:114")
         ELSE ArgumentLoop(tokens, i + 1, is_out_fn, n_returns, TRUE, arguments)
    ELSE IF Len(type_and_name) # 2 THEN Raise("parse_arguments:118")
    ELSE ArgumentNext(tokens, i, is_out_fn, n_returns, kwarg_only, arguments,
                      ArgumentOf(type_and_name,
                                 [arg_idx |-> i - 1, is_out_fn |-> is_out_fn,
                                  n_returns |-> n_returns, kwarg_only |-> kwarg_only]))

\* lines 111-112
ArgumentLoop(tokens, i, is_out_fn, n_returns, kwarg_only, arguments) ==
    IF i > Len(tokens) THEN Ok(arguments)
    ELSE ArgumentToken(tokens, i, is_out_fn, n_returns, kwarg_only, arguments,
                       StripAll(RSplit1(tokens[i], " ")))

(***************************************************************************)
(* parse_arguments: the check of an in-place function's self argument,     *)
(* lines 162-173.  Argument i (from 0) is compared with func_return[i].    *)
(***************************************************************************)
RECURSIVE SelfLoop(_, _, _, _)
SelfLoop(arguments, func_return, i, found_self) ==
    IF i > Len(arguments)
    THEN IF found_self THEN Ok(arguments) ELSE Raise("parse_arguments:173")
    ELSE IF arguments[i].name # "self"
    THEN SelfLoop(arguments, func_return, i + 1, found_self)
    ELSE IF ~(arguments[i].annotation # None /\ EndsWith(arguments[i].annotation[1], "!"))
    THEN Raise("parse_arguments:166")
    ELSE IF i > Len(func_return) THEN Raise("parse_arguments:169:IndexError")
    ELSE IF arguments[i].annotation # func_return[i].annotation THEN Raise("parse_arguments:169")
    ELSE IF arguments[i].name # func_return[i].name THEN Raise("parse_arguments:171")
    ELSE IF arguments[i].type # func_return[i].type THEN Raise("parse_arguments:172")
    ELSE SelfLoop(arguments, func_return, i + 1, TRUE)

\* lines 160-174; parsed is the result of the loop over the tokens
CheckSelf(parsed, func_return, inplace) ==
    IF ~parsed.ok THEN parsed
    ELSE IF inplace /\ Len(func_return) > 0 /\ func_return[1].type # "void"
         THEN SelfLoop(parsed.val, func_return, 1, FALSE)
    ELSE parsed

parse_arguments(args, func_decl, func_name, func_return, inplace) ==
    IF EndsWith(func_name, "_out") /\ VariantsNotFunctionOnly(func_decl)
    THEN Raise("parse_arguments:100")
    ELSE IF Len(Strip(args)) = 0 THEN Ok(<<>>)
    ELSE CheckSelf(ArgumentLoop(Split(args, ", "), 1, EndsWith(func_name, "_out"),
                                Len(func_return), FALSE, <<>>),
                   func_return, inplace)

(***************************************************************************)
(* propagate_field_names.  output_arguments holds the very dicts of the    *)
(* argument list, so the names it sets show in the list: this gives the    *)
(* changed argument list.  output_arguments[i] raises IndexError when      *)
(* there are fewer output arguments than i + 1.                            *)
(***************************************************************************)
\* the places of [x for x in arguments if x.get('output')] in arguments
RECURSIVE OutputIndexes(_, _)
OutputIndexes(arguments, i) ==
    IF i > Len(arguments) THEN <<>>
    ELSE (IF arguments[i].output THEN <<i>> ELSE <<>>) \o OutputIndexes(arguments, i + 1)

RECURSIVE PropagateLoop(_, _, _, _)
\* lines 228-230 without the test of line 229: the name of every slot is handed on
PropagateLoopEveryName(arguments, outs, return_arguments, i) ==
    IF i > Len(return_arguments) THEN Ok(arguments)
    ELSE IF i > Len(outs) THEN Raise("propagate_field_names:230")
    ELSE PropagateLoop([arguments EXCEPT ![outs[i]].field_name = Some(return_arguments[i].name)],
                       outs, return_arguments, i + 1)

\* lines 228-230
PropagateLoop(arguments, outs, return_arguments, i) ==
    IF i > Len(return_arguments) THEN Ok(arguments)
    ELSE IF return_arguments[i].field_name = None
    THEN PropagateLoop(arguments, outs, return_arguments, i + 1)
    ELSE IF i > Len(outs) THEN Raise("propagate_field_names:230")
    ELSE PropagateLoop([arguments EXCEPT ![outs[i]].field_name = return_arguments[i].field_name],
                       outs, return_arguments, i + 1)

propagate_field_names(arguments, outs, return_arguments) ==
    IF Len(outs) = 0 THEN Ok(arguments)
    ELSE PropagateLoop(arguments, outs, return_arguments, 1)

(***************************************************************************)
(* has_sparse_dispatches.  The dispatch entry is a YAML mapping (kind      *)
(* "dict": its keys, in order, and their values) or a string (kind "str"). *)
(* Iterating a mapping gives its keys, iterating a string its characters.  *)
(***************************************************************************)
DStr(text) == [kind |-> "str", text |-> text, keys |-> <<>>, vals |-> <<>>]
DDict(keys, vals) == [kind |-> "dict", text |-> "", keys |-> keys, vals |-> vals]

\* lines 214-218 with the mapping's values scanned in place of its keys
has_sparse_dispatch_values(dispatches) ==
    IF dispatches.kind = "dict"
    THEN \E i \in 1..Len(dispatches.vals) : Contains(dispatches.vals[i], "Sparse")
    ELSE \E i \in 1..Len(dispatches.text) : Contains(CharAt(dispatches.text, i), "Sparse")

has_sparse_dispatches(dispatches) ==
    IF dispatches.kind = "dict"
    THEN \E i \in 1..Len(dispatches.keys) : Contains(dispatches.keys[i], "Sparse")
    ELSE \E i \in 1..Len(dispatches.text) : Contains(CharAt(dispatches.text, i), "Sparse")

(***************************************************************************)
(* The body of run's loop for one record, lines 237-265: the declaration   *)
(* it appends, or the place that raises and the declaration as far as it   *)
(* was built.  d is the declaration built so far.                          *)
(***************************************************************************)
\* the exception at site with a declaration that holds the mode alone
RaiseWithModeOnly(site, declaration) == [ok |-> FALSE, err |-> site, val |-> [mode |-> "native"]]

\* the exception at site and the declaration as far as it was built
RaiseWith(site, declaration) == [ok |-> FALSE, err |-> site, val |-> declaration]

\* lines 253-264 with False as the default of device_guard at line 259
DeclareFieldsUnguarded(func, d, return_arguments, arguments, outs, dispatch) ==
    Ok([mode                  |-> d.mode,
        schema_string         |-> d.schema_string,
        name                  |-> d.name,
        inplace               |-> d.inplace,
        return                |-> IF Len(outs) = 0 THEN return_arguments
                                  ELSE [k \in 1..Len(outs) |-> arguments[outs[k]]],
        variants              |-> Get(func.variants, VList(<<"function">>)),
        requires_tensor       |-> Get(func.requires_tensor, FALSE),
        matches_jit_signature |-> Get(func.matches_jit_signature, FALSE),
        cpu_half              |-> Get(func.cpu_half, FALSE),
        deprecated            |-> Get(func.deprecated, FALSE),
        device_guard          |-> Get(func.device_guard, FALSE),
        arguments             |-> Get(func.arguments, arguments),
        type_method_definition_dispatch |-> dispatch,
        python_module         |-> Get(func.python_module, ""),
        aten_sparse           |-> has_sparse_dispatches(dispatch)])

\* lines 253-264
DeclareFields(func, d, return_arguments, arguments, outs, dispatch) ==
    Ok([mode                  |-> d.mode,
        schema_string         |-> d.schema_string,
        name                  |-> d.name,
        inplace               |-> d.inplace,
        return                |-> IF Len(outs) = 0 THEN return_arguments
                                  ELSE [k \in 1..Len(outs) |-> arguments[outs[k]]],
        variants              |-> Get(func.variants, VList(<<"function">>)),
        requires_tensor       |-> Get(func.requires_tensor, FALSE),
        matches_jit_signature |-> Get(func.matches_jit_signature, FALSE),
        cpu_half              |-> Get(func.cpu_half, FALSE),
        deprecated            |-> Get(func.deprecated, FALSE),
        device_guard          |-> Get(func.device_guard, TRUE),
        arguments             |-> Get(func.arguments, arguments),
        type_method_definition_dispatch |-> dispatch,
        python_module         |-> Get(func.python_module, ""),
        aten_sparse           |-> has_sparse_dispatches(dispatch)])

\* line 252
DeclarePropagated(func, d, return_arguments, named) ==
    IF ~named.ok THEN RaiseWith(named.err, d)
    ELSE DeclareFields(func, d, return_arguments, named.val, OutputIndexes(named.val, 1),
                       Get(func.dispatch, DStr(d.name)))

\* lines 250-251
DeclareArguments(func, d, return_arguments, arguments) ==
    IF ~arguments.ok THEN RaiseWith(arguments.err, d)
    ELSE DeclarePropagated(func, d, return_arguments,
                           propagate_field_names(arguments.val,
                                                 OutputIndexes(arguments.val, 1),
                                                 return_arguments))

\* line 249
DeclareReturns(func, d, arguments, return_arguments) ==
    IF ~return_arguments.ok THEN RaiseWith(return_arguments.err, d)
    ELSE DeclareArguments(func, d, return_arguments.val,
                          parse_arguments(arguments, func, d.name, return_arguments.val,
                                          d.inplace))

\* lines 244-248
DeclareHead(func, d, head, return_decl) ==
    IF Len(head) # 2 THEN RaiseWith("run:244", d)
    ELSE IF Len(head[2]) = 0 THEN RaiseWith("run:245:IndexError", d)
    ELSE IF CharAt(head[2], Len(head[2])) # ")" THEN RaiseWith("run:245", d)
    ELSE DeclareReturns(func,
                        [mode |-> d.mode, schema_string |-> d.schema_string,
                         name |-> Get(func.name, head[1]), inplace |-> IsInplaceName(head[1])],
                        SubSeq(head[2], 1, Len(head[2]) - 1),
                        parse_return_arguments(return_decl, IsInplaceName(head[1])))

\* lines 240-241 with the text cut at its first two "->" and the rest dropped
DeclareHalvesFirstTwo(func, d, halves) ==
    IF Len(halves) < 2 THEN RaiseWith("run:241", d)
    ELSE DeclareHead(func, d, Split1(halves[1], "("), halves[2])

\* line 241
DeclareHalves(func, d, halves) ==
    IF Len(halves) # 2 THEN RaiseWith("run:241", d)
    ELSE DeclareHead(func, d, Split1(halves[1], "("), halves[2])

\* lines 239-243
DeclareText(func, text, d) ==
    IF ~Contains(text, "->") THEN RaiseWith("run:243", d)
    ELSE DeclareHalves(func, d, StripAll(Split(text, "->")))

\* lines 237-239 with the text stripped before it is kept
DeclareStripped(func) ==
    IF func.func = None THEN RaiseWith("run:239", [mode |-> "native"])
    ELSE DeclareText(func, func.func[1],
                     [mode |-> "native", schema_string |-> "aten::" \o Strip(func.func[1])])

Declare(func) ==
    IF func.func = None THEN RaiseWith("run:239", [mode |-> "native"])
    ELSE DeclareText(func, func.func[1],
                     [mode |-> "native", schema_string |-> "aten::" \o func.func[1]])

(***************************************************************************)
(* The input documents.  A document is a list of records; a record is kept *)
(* as its author composed it: the signature as a name, argument tokens and *)
(* return slots, beside the record's other keys.  parse_native_yaml hands  *)
(* run the signature as the text of the func key.                          *)
(***************************************************************************)
Star == [star |-> TRUE, type |-> "", name |-> "", default |-> None]
Arg(type, name) == [star |-> FALSE, type |-> type, name |-> name, default |-> None]
ArgD(type, name, default) ==
    [star |-> FALSE, type |-> type, name |-> name, default |-> Some(default)]

Slot(type) == [type |-> type, name |-> None]
NamedSlot(type, name) == [type |-> type, name |-> Some(name)]

\* form: "plain"; "padded" has white space before and after the text; "no_arrow",
\* "two_arrows" and "no_paren" are malformed texts; "no_func" is a record without
\* the func key
Sig(name, args, rets, form) == [name |-> name, args |-> args, rets |-> rets, form |-> form]

Record(sig) ==
    [sig |-> sig, name |-> None, variants |-> None, arguments |-> None, dispatch |-> None,
     requires_tensor |-> None, matches_jit_signature |-> None, cpu_half |-> None,
     deprecated |-> None, device_guard |-> None, python_module |-> None]

RECURSIVE Join(_, _)
Join(parts, sep) ==
    IF Len(parts) = 0 THEN ""
    ELSE IF Len(parts) = 1 THEN parts[1]
    ELSE parts[1] \o sep \o Join(Tail(parts), sep)

ArgText(a) ==
    IF a.star THEN "*"
    ELSE a.type \o " " \o a.name \o (IF a.default = None THEN "" ELSE "=" \o a.default[1])

SlotText(r) == r.type \o (IF r.name = None THEN "" ELSE " " \o r.name[1])

ArgsText(args) == Join([i \in 1..Len(args) |-> ArgText(args[i])], ", ")

RetsText(rets) ==
    IF Len(rets) = 1 THEN SlotText(rets[1])
    ELSE "(" \o Join([i \in 1..Len(rets) |-> SlotText(rets[i])], ", ") \o ")"

SigText(sig) ==
    LET left == sig.name \o "(" \o ArgsText(sig.args)
    IN  IF sig.form = "no_arrow" THEN left \o ")"
        ELSE IF sig.form = "two_arrows"
             THEN left \o ") -> " \o RetsText(sig.rets) \o " -> " \o RetsText(sig.rets)
        ELSE IF sig.form = "no_paren" THEN left \o " -> " \o RetsText(sig.rets)
        ELSE IF sig.form = "padded" THEN " " \o left \o ") -> " \o RetsText(sig.rets) \o "  "
        ELSE left \o ") -> " \o RetsText(sig.rets)

\* the dict yaml.load gives for one record
FuncOf(rec) ==
    [func |-> IF rec.sig.form = "no_func" THEN None ELSE Some(SigText(rec.sig)),
     name |-> rec.name, variants |-> rec.variants, arguments |-> rec.arguments,
     dispatch |-> rec.dispatch, requires_tensor |-> rec.requires_tensor,
     matches_jit_signature |-> rec.matches_jit_signature, cpu_half |-> rec.cpu_half,
     deprecated |-> rec.deprecated, device_guard |-> rec.device_guard,
     python_module |-> rec.python_module]

parse_native_yaml(path) == [i \in 1..Len(path) |-> FuncOf(path[i])]

(***************************************************************************)
(* Bounds of the input pools.                                              *)
(***************************************************************************)
MaxNameLen == 3
MaxArgs == 3
MaxRecords == 3
MaxReturns == 2

SeqsUpTo(S, n) == UNION {[1..k -> S] : k \in 0..n}

(***************************************************************************)
(* Function names over a small alphabet, each in the signature             *)
(* name() -> void, which every name compiles with.                         *)
(***************************************************************************)
NameAlphabet == {"_", "i", "a"}

RECURSIVE NamesOfLen(_)
NamesOfLen(n) ==
    IF n = 0 THEN {""} ELSE {s \o c : s \in NamesOfLen(n - 1), c \in NameAlphabet}

NamePool == UNION {NamesOfLen(n) : n \in 1..MaxNameLen}

NameRecords == {Record(Sig(n, <<>>, <<Slot("void")>>, "plain")) : n \in NamePool}

(***************************************************************************)
(* In-place and plain operators over every argument list of up to MaxArgs  *)
(* tokens, with and without a (mutable) self.                              *)
(***************************************************************************)
InplaceTokens ==
    {Arg("Tensor(a!)", "self"), Arg("Tensor", "self"), Arg("Tensor(a)", "self"),
     Arg("Tensor", "other")}

InplaceRets ==
    {<<Slot("Tensor(a!)")>>, <<Slot("void")>>, <<Slot("Tensor")>>, <<Slot("bool")>>,
     <<NamedSlot("Tensor(b!)", "x"), NamedSlot("Tensor(a!)", "self")>>,
     <<NamedSlot("Tensor(a!)", "self"), NamedSlot("Tensor(a!)", "self")>>}

InplaceRecords ==
    {Record(Sig(n, a, r, "plain")) :
        n \in {"add_", "add"}, a \in SeqsUpTo(InplaceTokens, MaxArgs), r \in InplaceRets}

(***************************************************************************)
(* _out and plain operators over argument lists with the * separator.      *)
(***************************************************************************)
OutTokens == {Arg("Tensor", "result"), Arg("Tensor", "self"), Star}

OutRets ==
    {<<Slot("Tensor")>>, <<Slot("Tensor"), Slot("Tensor")>>,
     <<NamedSlot("Tensor", "a"), NamedSlot("Tensor", "b")>>,
     <<NamedSlot("Tensor", "a")>>,
     <<NamedSlot("Tensor", "a"), Slot("Tensor")>>,
     <<Slot("Tensor"), NamedSlot("Tensor", "b")>>}

OutRecords ==
    {Record(Sig(n, a, r, "plain")) :
        n \in {"foo_out", "foo"}, a \in SeqsUpTo(OutTokens, MaxArgs), r \in OutRets}

(***************************************************************************)
(* The variants key and the name key.                                      *)
(***************************************************************************)
VariantValues ==
    {None, Some(VStr("function")), Some(VList(<<"function">>)), Some(VStr("method")),
     Some(VStr("function, method")), Some(VList(<<"function", "method">>)),
     Some(VList(<<>>))}

NameValues == {None, Some("bar_out"), Some("bar")}

VariantRecords ==
    {[Record(Sig(n, <<Arg("Tensor", "result"), Arg("Tensor", "self")>>, <<Slot("Tensor")>>,
                 "plain")) EXCEPT !.name = o, !.variants = v] :
        n \in {"foo_out", "foo"}, o \in NameValues, v \in VariantValues}

(***************************************************************************)
(* One argument of each type, with and without each default text.          *)
(***************************************************************************)
TypeTokens ==
    {"Tensor", "Tensor?", "Tensor?(a)", "Tensor?(a!)", "Tensor(a)?", "Tensor(a)", "Tensor[]",
     "Tensor(a)[]", "int", "int?", "int[]", "int[2]", "int[2]?", "int[10]", "int[2][]",
     "float", "bool",
     "Generator?", "Generator*", "Scalar", "std::array<bool,2>"}

DefaultTexts ==
    {"True", "False", "true", "false", "nullptr", "[]", "[0,1]", "[1]x", "None", "Mean",
     "5", "-1", "+7", "0.5", "1e-5", "2.", "1.50", "Long", "c10::nullopt", "{}", "1x", ""}

TypeRecords ==
    {Record(Sig("foo", <<a>>, <<Slot("Tensor")>>, "plain")) :
        a \in {Arg(t, "x") : t \in TypeTokens}
              \cup {ArgD(t, "x", d) : t \in TypeTokens, d \in DefaultTexts}}

(***************************************************************************)
(* One return slot of each type, beside an argument written the same way.  *)
(***************************************************************************)
ReturnTypeRecords ==
    {Record(Sig("foo", <<Arg(t, "x")>>, <<Slot(t)>>, "plain")) : t \in TypeTokens}

(***************************************************************************)
(* Return specifications of up to MaxReturns slots and one of three,       *)
(* named and unnamed, of in-place and plain operators, with no argument or *)
(* the one self.                                                           *)
(***************************************************************************)
NamingSlots ==
    {Slot("Tensor(a!)"), Slot("Tensor"), Slot("int"), Slot("Tensor(a!)[]"),
     NamedSlot("Tensor(a!)", "self"), NamedSlot("Tensor", "out")}

NamingRecords ==
    {Record(Sig(n, a, r, "plain")) :
        n \in {"add_", "add"}, a \in {<<>>, <<Arg("Tensor(a!)", "self")>>},
        r \in (SeqsUpTo(NamingSlots, MaxReturns) \ {<<>>})
                 \cup {<<NamedSlot("Tensor", "out"), Slot("Tensor(a!)"), Slot("int")>>}}

(***************************************************************************)
(* Texts in each form, among them the malformed ones, and a record that    *)
(* gives the arguments key itself.                                         *)
(***************************************************************************)
FormRecords ==
    {Record(Sig(n, <<Arg("Tensor(a!)", "self")>>, <<Slot("Tensor(a!)")>>, f)) :
        n \in {"add_", "add"},
        f \in {"padded", "no_arrow", "two_arrows", "no_paren", "no_func"}}

OverrideRecords ==
    {[Record(Sig("add_", a, <<Slot("Tensor(a!)")>>, "plain"))
        EXCEPT !.arguments = Some(<<[name |-> "other", type |-> "Tensor"]>>)] :
        a \in {<<>>, <<Arg("Tensor(a!)", "self")>>}}

(***************************************************************************)
(* Records that give the optional keys: each flag alone with either value, *)
(* the dispatch key as a text or a mapping under several names, and one    *)
(* record that gives every key.                                            *)
(***************************************************************************)
DispatchValues ==
    {None, Some(DStr("foo_impl")), Some(DStr("SparseImpl")),
     Some(DDict(<<>>, <<>>)),
     Some(DDict(<<"CPU", "CUDA">>, <<"foo_cpu", "foo_cuda">>)),
     Some(DDict(<<"CPU", "SparseCPU">>, <<"foo_cpu", "foo_sparse">>)),
     Some(DDict(<<"SparseCUDA">>, <<"foo_sparse">>)),
     Some(DDict(<<"CPU">>, <<"SparseImpl">>)),
     Some(DDict(<<"sparse", "SPARSE">>, <<"a", "b">>))}

FieldBase(n) == Record(Sig(n, <<Arg("Tensor", "self")>>, <<Slot("Tensor")>>, "plain"))

FlagRecords ==
    {[FieldBase("foo") EXCEPT !.requires_tensor = Some(b)] : b \in BOOLEAN}
        \cup {[FieldBase("foo") EXCEPT !.matches_jit_signature = Some(b)] : b \in BOOLEAN}
        \cup {[FieldBase("foo") EXCEPT !.cpu_half = Some(b)] : b \in BOOLEAN}
        \cup {[FieldBase("foo") EXCEPT !.deprecated = Some(b)] : b \in BOOLEAN}
        \cup {[FieldBase("foo") EXCEPT !.device_guard = Some(b)] : b \in BOOLEAN}
        \cup {[FieldBase("foo") EXCEPT !.python_module = Some(m)] : m \in {"nn", ""}}

DispatchRecords ==
    {[FieldBase(n) EXCEPT !.name = o, !.dispatch = d] :
        n \in {"foo", "Sparse"}, o \in {None, Some("SparseBar")}, d \in DispatchValues}

FullRecords ==
    {[FieldBase("foo") EXCEPT !.name = Some("bar"), !.variants = Some(VStr("method")),
                              !.dispatch = Some(DDict(<<"SparseCPU">>, <<"bar_sparse">>)),
                              !.requires_tensor = Some(TRUE),
                              !.matches_jit_signature = Some(TRUE),
                              !.cpu_half = Some(TRUE), !.deprecated = Some(TRUE),
                              !.device_guard = Some(FALSE), !.python_module = Some("nn")]}

FieldRecords == FlagRecords \cup DispatchRecords \cup FullRecords

RecordPool ==
    NameRecords \cup InplaceRecords \cup OutRecords \cup VariantRecords
        \cup TypeRecords \cup FormRecords \cup OverrideRecords \cup FieldRecords
        \cup ReturnTypeRecords \cup NamingRecords

(***************************************************************************)
(* Batches of several records, in one document or cut into two.            *)
(***************************************************************************)
BatchPool ==
    {Record(Sig("add", <<Arg("Tensor", "self"), Arg("Tensor", "other")>>,
                <<Slot("Tensor")>>, "plain")),
     Record(Sig("add_", <<Arg("Tensor(a!)", "self"), Arg("Tensor", "other")>>,
                <<Slot("Tensor(a!)")>>, "plain")),
     Record(Sig("add_", <<Arg("Tensor", "self"), Arg("Tensor", "other")>>,
                <<Slot("Tensor(a!)")>>, "plain")),
     Record(Sig("add", <<Arg("Tensor", "self")>>, <<Slot("Tensor")>>, "no_arrow"))}

Batches ==
    LET lists == {l \in SeqsUpTo(BatchPool, MaxRecords) : Len(l) >= 2}
    IN  {<<l>> : l \in lists}
            \cup {<<SubSeq(l, 1, c), SubSeq(l, c + 1, Len(l))>> :
                    <<l, c>> \in {<<l, c>> \in lists \X (1..MaxRecords) : c < Len(l)}}

Inputs == {<<(<<r>>)>> : r \in RecordPool} \cup Batches

(***************************************************************************)
(* generate-wrapper.py.  QNNPACK_SOURCES is the dict of the script as the  *)
(* sequence its items() yields: one entry per condition, the condition     *)
(* None or a preprocessor expression, with the list of its file names.     *)
(***************************************************************************)
\* Generic functions
GenericSources ==
    <<"requantization/fp32-psimd.c", "requantization/fp32-scalar.c",
      "requantization/gemmlowp-scalar.c", "requantization/precise-psimd.c",
      "requantization/precise-scalar.c", "requantization/q31-scalar.c",
      "sgemm/6x8-psimd.c", "u8lut32norm/scalar.c", "x8lut/scalar.c">>

\* AArch32/AArch64-specific uKernels
ArmSources ==
    <<"q8avgpool/mp8x9p8q-neon.c", "q8avgpool/up8x9-neon.c", "q8avgpool/up8xm-neon.c",
      "q8conv/4x8-neon.c", "q8conv/8x8-neon.c", "q8dwconv/mp8x25-neon.c",
      "q8dwconv/mp8x25-neon-per-channel.c", "q8dwconv/up8x9-neon.c",
      "q8dwconv/up8x9-neon-per-channel.c", "q8gavgpool/mp8x7p7q-neon.c",
      "q8gavgpool/up8x7-neon.c", "q8gavgpool/up8xm-neon.c", "q8gemm/4x-sumrows-neon.c",
      "q8gemm/4x8-neon.c", "q8gemm/4x8-dq-neon.c", "q8gemm/4x8c2-xzp-neon.c",
      "q8gemm/6x4-neon.c", "q8gemm/8x8-neon.c", "q8vadd/neon.c",
      "requantization/fp32-neon.c", "requantization/gemmlowp-neon.c",
      "requantization/precise-neon.c", "requantization/q31-neon.c", "sgemm/5x8-neon.c",
      "sgemm/6x8-neon.c", "u8clamp/neon.c", "u8maxpool/16x9p8q-neon.c",
      "u8maxpool/sub16-neon.c", "u8rmax/neon.c", "x8zip/x2-neon.c", "x8zip/x3-neon.c",
      "x8zip/x4-neon.c", "x8zip/xm-neon.c">>

\* x86/x86-64-specific uKernels
X86Sources ==
    <<"q8avgpool/mp8x9p8q-sse2.c", "q8avgpool/up8x9-sse2.c", "q8avgpool/up8xm-sse2.c",
      "q8conv/4x4c2-sse2.c", "q8dwconv/mp8x25-sse2.c",
      "q8dwconv/mp8x25-sse2-per-channel.c", "q8dwconv/up8x9-sse2.c",
      "q8dwconv/up8x9-sse2-per-channel.c", "q8gavgpool/mp8x7p7q-sse2.c",
      "q8gavgpool/up8x7-sse2.c", "q8gavgpool/up8xm-sse2.c", "q8gemm/2x4c8-sse2.c",
      "q8gemm/4x4c2-dq-sse2.c", "q8gemm/4x4c2-sse2.c", "q8vadd/sse2.c",
      "requantization/fp32-sse2.c", "requantization/gemmlowp-sse2.c",
      "requantization/gemmlowp-sse4.c", "requantization/gemmlowp-ssse3.c",
      "requantization/precise-sse2.c", "requantization/precise-sse4.c",
      "requantization/precise-ssse3.c", "requantization/q31-sse2.c",
      "requantization/q31-sse4.c", "requantization/q31-ssse3.c", "u8clamp/sse2.c",
      "u8maxpool/16x9p8q-sse2.c", "u8maxpool/sub16-sse2.c", "u8rmax/sse2.c",
      "x8zip/x2-sse2.c", "x8zip/x3-sse2.c", "x8zip/x4-sse2.c", "x8zip/xm-sse2.c">>

\* AArch32-specific uKernels
AArch32Sources ==
    <<"hgemm/8x8-aarch32-neonfp16arith.S", "q8conv/4x8-aarch32-neon.S",
      "q8dwconv/up8x9-aarch32-neon.S", "q8dwconv/up8x9-aarch32-neon-per-channel.S",
      "q8gemm/4x8-aarch32-neon.S", "q8gemm/4x8-dq-aarch32-neon.S",
      "q8gemm/4x8c2-xzp-aarch32-neon.S">>

\* AArch64-specific uKernels
AArch64Sources ==
    <<"q8conv/8x8-aarch64-neon.S", "q8gemm/8x8-aarch64-neon.S",
      "q8gemm/8x8-dq-aarch64-neon.S">>

\* the table with the AArch32 files listed under the AArch64 condition as well
QNNPACK_SOURCES_shared ==
    <<[condition |-> None, filenames |-> GenericSources],
      [condition |-> Some("defined(__arm__) || defined(__aarch64__)"), filenames |-> ArmSources],
      [condition |-> Some("defined(__i386__) || defined(__i686__) || defined(__x86_64__)"),
       filenames |-> X86Sources],
      [condition |-> Some("defined(__arm__)"), filenames |-> AArch32Sources],
      [condition |-> Some("defined(__aarch64__)"), filenames |-> AArch32Sources]>>

QNNPACK_SOURCES ==
    <<[condition |-> None, filenames |-> GenericSources],
      [condition |-> Some("defined(__arm__) || defined(__aarch64__)"), filenames |-> ArmSources],
      [condition |-> Some("defined(__i386__) || defined(__i686__) || defined(__x86_64__)"),
       filenames |-> X86Sources],
      [condition |-> Some("defined(__arm__)"), filenames |-> AArch32Sources],
      [condition |-> Some("defined(__aarch64__)"), filenames |-> AArch64Sources]>>

BANNER == "/* Auto-generated by generate-wrappers.py script. Do not modify */"

(***************************************************************************)
(* The file system the script works on: the set of directories and the     *)
(* regular files with their lines.  A path is a text with "/" between its  *)
(* parts, relative to the working directory.                               *)
(***************************************************************************)
\* os.path.join(a, b) for a relative b
Join2(a, b) == a \o "/" \o b

\* os.path.dirname(p)
Dirname(p) == SubSeq(p, 1, RFind(p, "/", Len(p)) - 1)

\* dir and every directory above it
Ancestors(dir) == {dir} \cup {SubSeq(dir, 1, k - 1) : k \in {q \in 1..Len(dir) : CharAt(dir, q) = "/"}}

\* os.path.isdir(p)
IsDir(ds, p) == p \in ds

\* os.makedirs(dir) raises when dir exists or a file stands where a directory is needed
MakedirsRaises(ds, fs, dir) == dir \in ds \/ \E a \in Ancestors(dir) : a \in DOMAIN fs

\* open(p, "w") raises on a directory and where the directory of p is missing
OpenRaises(ds, fs, p) == p \in ds \/ Dirname(p) \notin ds

\* open(p, "w") creates the file or empties it
Truncated(fs, p) == (p :> <<>>) @@ fs

\* open(p, "a"), which keeps what the file holds
Appended(fs, p) ==  IF p \in DOMAIN fs THEN fs ELSE (p :> <<>>) @@ fs

\* print(line, file=wrapper)
Printed(fs, p, line) == [fs EXCEPT ![p] = Append(@, line)]

(***************************************************************************)
(* The C preprocessor reading a wrapper on a target, which is the set of   *)
(* the architecture macros it defines: a condition is a "||" of defined()  *)
(* terms, and a wrapper without "#if" is included on every target.         *)
(***************************************************************************)
ArchitectureMacros == {"__arm__", "__aarch64__", "__i386__", "__i686__", "__x86_64__"}

TermsOf(condition) == Split(condition, " || ")

\* every term must hold: the condition read as a "&&"
HoldsAll(condition, macros) ==
    \A i \in 1..Len(TermsOf(condition)) :
        \E m \in macros : TermsOf(condition)[i] = "defined(" \o m \o ")"

Holds(condition, macros) ==
    \E i \in 1..Len(TermsOf(condition)) :
        \E m \in macros : TermsOf(condition)[i] = "defined(" \o m \o ")"

Admits(lines, macros) ==
    IF Len(lines) >= 3 /\ StartsWith(lines[3], "#if ")
    THEN Holds(SubSeq(lines[3], 5, Len(lines[3])), macros)
    ELSE TRUE

(***************************************************************************)
(* The state of the script: the file system, the place in the two loops of *)
(* lines 111-112, the open wrapper, and gpc, the statement about to run    *)
(* ("idle" when the script is not running, "done" after the last entry,    *)
(* "failed" after an exception, "preprocessed" once a target has read the  *)
(* wrappers).  run_no counts the runs, first_run keeps the files the first *)
(* run left, opened lists the paths the current run has opened.            *)
(***************************************************************************)
VARIABLES dirs, files, condition_idx, filename_idx, wrapper, gpc, run_no, first_run, opened,
          target, included

gen_vars ==
    <<dirs, files, condition_idx, filename_idx, wrapper, gpc, run_no, first_run, opened,
      target, included>>

GenIdle ==
    /\ dirs = {}
    /\ files = <<>>
    /\ condition_idx = 1
    /\ filename_idx = 1
    /\ wrapper = None
    /\ gpc = "idle"
    /\ run_no = 0
    /\ first_run = None
    /\ opened = <<>>
    /\ target = {}
    /\ included = {}

(***************************************************************************)
(* The per-entry steps of lines 113-130 taken by workers side by side on   *)
(* one file system: workers[w] is the entry worker w was handed and the    *)
(* statement it is about to run.  No worker runs in run() or in the script *)
(* as it stands.                                                           *)
(***************************************************************************)
VARIABLE workers

ParIdle == workers = <<>>

(***************************************************************************)
(* run(paths).  pc is "loop" inside the two loops, "raised" once a record  *)
(* has raised (run re-raises and ends) and "returned" after the return.    *)
(* raised then holds what the except clause reports: func and declaration  *)
(* are the record and the partial declaration that the message printed to  *)
(* sys.stderr spells out (lines 267-271), err is the place of the          *)
(* exception that line 272 raises again.                                   *)
(***************************************************************************)
VARIABLES paths, path_idx, func_idx, declarations, pc, raised, result

run_vars == <<paths, path_idx, func_idx, declarations, pc, raised, result>>

vars == <<run_vars, gen_vars, workers>>

Init ==
    /\ paths \in Inputs
    /\ path_idx = 1
    /\ func_idx = 1
    /\ declarations = <<>>
    /\ pc = "loop"
    /\ raised = None
    /\ result = None
    /\ GenIdle
    /\ ParIdle

\* lines 236-272 with the except clause passing over the record and going on
RunRecordBestEffort ==
    /\ pc = "loop"
    /\ path_idx <= Len(paths)
    /\ func_idx <= Len(paths[path_idx])
    /\ LET func == parse_native_yaml(paths[path_idx])[func_idx]
           d    == Declare(func)
       IN  /\ declarations' = IF d.ok THEN Append(declarations, d.val) ELSE declarations
           /\ func_idx' = func_idx + 1
           /\ UNCHANGED <<pc, raised>>
    /\ UNCHANGED <<paths, path_idx, result>>
    /\ UNCHANGED gen_vars
    /\ UNCHANGED workers

\* lines 236-272 with the declaration put before the ones compiled so far
RunRecordPrepending ==
    /\ pc = "loop"
    /\ path_idx <= Len(paths)
    /\ func_idx <= Len(paths[path_idx])
    /\ LET func == parse_native_yaml(paths[path_idx])[func_idx]
           d    == Declare(func)
       IN  IF d.ok
           THEN /\ declarations' = <<d.val>> \o declarations
                /\ func_idx' = func_idx + 1
                /\ UNCHANGED <<pc, raised>>
           ELSE /\ pc' = "raised"
                /\ raised' = Some([func |-> func, declaration |-> d.val, err |-> d.err])
                /\ UNCHANGED <<declarations, func_idx>>
    /\ UNCHANGED <<paths, path_idx, result>>
    /\ UNCHANGED gen_vars
    /\ UNCHANGED workers

\* one pass of the inner loop, lines 236-272
RunRecord ==
    /\ pc = "loop"
    /\ path_idx <= Len(paths)
    /\ func_idx <= Len(paths[path_idx])
    /\ LET func == parse_native_yaml(paths[path_idx])[func_idx]
           d    == Declare(func)
       IN  IF d.ok
           THEN /\ declarations' = Append(declarations, d.val)
                /\ func_idx' = func_idx + 1
                /\ UNCHANGED <<pc, raised>>
           ELSE /\ pc' = "raised"
                /\ raised' = Some([func |-> func, declaration |-> d.val, err |-> d.err])
                /\ UNCHANGED <<declarations, func_idx>>
    /\ UNCHANGED <<paths, path_idx, result>>
    /\ UNCHANGED gen_vars
    /\ UNCHANGED workers

\* the outer loop moves to the next document, line 235
RunNextPath ==
    /\ pc = "loop"
    /\ path_idx <= Len(paths)
    /\ func_idx > Len(paths[path_idx])
    /\ path_idx' = path_idx + 1
    /\ func_idx' = 1
    /\ UNCHANGED <<paths, declarations, pc, raised, result>>
    /\ UNCHANGED gen_vars
    /\ UNCHANGED workers

\* return declarations, line 274
RunReturn ==
    /\ pc = "loop"
    /\ path_idx > Len(paths)
    /\ result' = Some(declarations)
    /\ pc' = "returned"
    /\ UNCHANGED <<paths, path_idx, func_idx, declarations, raised>>
    /\ UNCHANGED gen_vars
    /\ UNCHANGED workers

Next == RunRecord \/ RunNextPath \/ RunReturn

Spec == Init /\ [][Next]_vars

(***************************************************************************)
(* The script's main block, lines 110-130, one statement a step.  It runs  *)
(* in a working directory that is empty, or holds directories or files of  *)
(* an earlier build, or holds a file where the script needs a directory    *)
(* or a directory where it writes a wrapper.                               *)
(***************************************************************************)
MaxRuns == 2

InitialFileSystems ==
    {[dirs |-> {}, files |-> <<>>],
     [dirs |-> {"wrappers"}, files |-> <<>>],
     [dirs |-> {"wrappers", "wrappers/q8conv"},
      files |-> ("wrappers/q8conv/4x8-neon.c" :> <<"stale">>)],
     [dirs |-> {}, files |-> ("wrappers" :> <<>>)],
     [dirs |-> {"wrappers"}, files |-> ("wrappers/x8lut" :> <<"stale">>)],
     [dirs |-> {"wrappers", "wrappers/sgemm", "wrappers/sgemm/6x8-psimd.c", "wrappers/x8lut"},
      files |-> ("wrappers/x8lut/scalar.c" :> <<"stale">>)]}

Targets == {t \in SUBSET ArchitectureMacros : Cardinality(t) <= 2}

\* the first entry at or after i that has a file name, for the loop of line 111
RECURSIVE NextCondition(_)
NextCondition(i) ==
    IF i > Len(QNNPACK_SOURCES) THEN i
    ELSE IF Len(QNNPACK_SOURCES[i].filenames) > 0 THEN i
    ELSE NextCondition(i + 1)

Condition == QNNPACK_SOURCES[condition_idx].condition

Filename == QNNPACK_SOURCES[condition_idx].filenames[filename_idx]

\* line 113
Filepath == Join2("wrappers", Filename)

RunIdle ==
    /\ paths = <<>>
    /\ path_idx = 1
    /\ func_idx = 1
    /\ declarations = <<>>
    /\ pc = "idle"
    /\ raised = None
    /\ result = None

GenInit ==
    /\ RunIdle
    /\ \E fs \in InitialFileSystems : dirs = fs.dirs /\ files = fs.files
    /\ condition_idx = NextCondition(1)
    /\ filename_idx = 1
    /\ wrapper = None
    /\ gpc = IF NextCondition(1) > Len(QNNPACK_SOURCES) THEN "done" ELSE "makedirs"
    /\ run_no = 1
    /\ first_run = None
    /\ opened = <<>>
    /\ target = {}
    /\ included = {}
    /\ ParIdle

\* lines 113-115
GenMakeDirs ==
    /\ gpc = "makedirs"
    /\ IF IsDir(dirs, Dirname(Filepath))
       THEN gpc' = "open" /\ UNCHANGED dirs
       ELSE IF MakedirsRaises(dirs, files, Dirname(Filepath))
       THEN gpc' = "failed" /\ UNCHANGED dirs
       ELSE gpc' = "open" /\ dirs' = dirs \cup Ancestors(Dirname(Filepath))
    /\ UNCHANGED <<files, condition_idx, filename_idx, wrapper, run_no, first_run, opened,
                   target, included>>
    /\ UNCHANGED run_vars
    /\ UNCHANGED workers

\* line 116 with the wrappers of the run taken back when the open fails
GenOpenRollingBack ==
    /\ gpc = "open"
    /\ IF OpenRaises(dirs, files, Filepath)
       THEN /\ gpc' = "failed"
            /\ files' = [p \in DOMAIN files \ {opened[i] : i \in 1..Len(opened)} |-> files[p]]
            /\ UNCHANGED <<wrapper, opened>>
       ELSE /\ files' = Truncated(files, Filepath)
            /\ wrapper' = Some(Filepath)
            /\ opened' = Append(opened, Filepath)
            /\ gpc' = "banner"
    /\ UNCHANGED <<dirs, condition_idx, filename_idx, run_no, first_run, target, included>>
    /\ UNCHANGED run_vars
    /\ UNCHANGED workers

\* line 116 with the file opened for appending
GenOpenAppending ==
    /\ gpc = "open"
    /\ IF OpenRaises(dirs, files, Filepath)
       THEN gpc' = "failed" /\ UNCHANGED <<files, wrapper, opened>>
       ELSE /\ files' = Appended(files, Filepath)
            /\ wrapper' = Some(Filepath)
            /\ opened' = Append(opened, Filepath)
            /\ gpc' = "banner"
    /\ UNCHANGED <<dirs, condition_idx, filename_idx, run_no, first_run, target, included>>
    /\ UNCHANGED run_vars
    /\ UNCHANGED workers

\* line 116
GenOpen ==
    /\ gpc = "open"
    /\ IF OpenRaises(dirs, files, Filepath)
       THEN gpc' = "failed" /\ UNCHANGED <<files, wrapper, opened>>
       ELSE /\ files' = Truncated(files, Filepath)
            /\ wrapper' = Some(Filepath)
            /\ opened' = Append(opened, Filepath)
            /\ gpc' = "banner"
    /\ UNCHANGED <<dirs, condition_idx, filename_idx, run_no, first_run, target, included>>
    /\ UNCHANGED run_vars
    /\ UNCHANGED workers

\* a print into the open wrapper, then on to the statement at next
GenPrint(line, next) ==
    /\ files' = Printed(files, wrapper[1], line)
    /\ gpc' = next
    /\ UNCHANGED <<dirs, condition_idx, filename_idx, wrapper, run_no, first_run, opened,
                   target, included>>
    /\ UNCHANGED run_vars
    /\ UNCHANGED workers

\* line 117
GenPrintBanner == gpc = "banner" /\ GenPrint(BANNER, "blank")

\* line 118
GenPrintBlank == gpc = "blank" /\ GenPrint("", "branch")

\* lines 124-125
GenPrintInclude ==
    /\ gpc = "branch"
    /\ Condition = None
    /\ GenPrint("#include <" \o Filename \o ">", "close")

\* lines 124 and 128
GenPrintIf ==
    /\ gpc = "branch"
    /\ Condition # None
    /\ GenPrint("#if " \o Condition[1], "guarded")

\* line 129
GenPrintGuardedInclude == gpc = "guarded" /\ GenPrint("#include <" \o Filename \o ">", "endif")

\* line 130 with a bare #endif
GenPrintBareEndif == gpc = "endif" /\ GenPrint("#endif", "close")

\* line 130
GenPrintEndif == gpc = "endif" /\ GenPrint("#endif /* " \o Condition[1] \o " */", "close")

\* the end of the with block of line 116, and the loops of lines 111-112 moving on
GenClose ==
    /\ gpc = "close"
    /\ wrapper' = None
    /\ IF filename_idx < Len(QNNPACK_SOURCES[condition_idx].filenames)
       THEN /\ filename_idx' = filename_idx + 1
            /\ UNCHANGED condition_idx
       ELSE /\ filename_idx' = 1
            /\ condition_idx' = NextCondition(condition_idx + 1)
    /\ IF /\ filename_idx >= Len(QNNPACK_SOURCES[condition_idx].filenames)
          /\ NextCondition(condition_idx + 1) > Len(QNNPACK_SOURCES)
       THEN /\ gpc' = "done"
            /\ first_run' = IF run_no = 1 THEN Some(files) ELSE first_run
       ELSE /\ gpc' = "makedirs"
            /\ UNCHANGED first_run
    /\ UNCHANGED <<dirs, files, run_no, opened, target, included>>
    /\ UNCHANGED run_vars
    /\ UNCHANGED workers

\* the script is run again in the directory the run before left
GenRerun ==
    /\ gpc = "done"
    /\ run_no < MaxRuns
    /\ run_no' = run_no + 1
    /\ condition_idx' = NextCondition(1)
    /\ filename_idx' = 1
    /\ opened' = <<>>
    /\ gpc' = "makedirs"
    /\ UNCHANGED <<dirs, files, wrapper, first_run, target, included>>
    /\ UNCHANGED run_vars
    /\ UNCHANGED workers

\* a target compiles the wrappers: the files whose guard lets the include through
Preprocess ==
    /\ gpc = "done"
    /\ \E t \in Targets :
          /\ target' = t
          /\ included' = {p \in DOMAIN files : Admits(files[p], t)}
    /\ gpc' = "preprocessed"
    /\ UNCHANGED <<dirs, files, condition_idx, filename_idx, wrapper, run_no, first_run,
                   opened>>
    /\ UNCHANGED run_vars
    /\ UNCHANGED workers

GenNext ==
    \/ GenMakeDirs
    \/ GenOpen
    \/ GenPrintBanner
    \/ GenPrintBlank
    \/ GenPrintInclude
    \/ GenPrintIf
    \/ GenPrintGuardedInclude
    \/ GenPrintEndif
    \/ GenClose
    \/ GenRerun
    \/ Preprocess

GenSpec == GenInit /\ [][GenNext]_vars

(***************************************************************************)
(* Lines 113-130 for two entries of the table at once, as worker threads   *)
(* handed one entry each would run them: a worker tests the directory      *)
(* (line 114), creates it when the test found none (line 115), and writes  *)
(* the wrapper (lines 116-130); the steps of the two workers interleave    *)
(* in every way.  The working directory is one the script itself runs      *)
(* through without an exception.                                           *)
(***************************************************************************)
ParFileSystems ==
    {[dirs |-> {}, files |-> <<>>],
     [dirs |-> {"wrappers"}, files |-> <<>>],
     [dirs |-> {"wrappers", "wrappers/q8conv"},
      files |-> ("wrappers/q8conv/4x8-neon.c" :> <<"stale">>)]}

\* the places of the table: a condition and a file name under it
Places ==
    {<<i, j>> \in (1..Len(QNNPACK_SOURCES)) \X (1..Len(X86Sources)) :
        j <= Len(QNNPACK_SOURCES[i].filenames)}

WorkerCondition(w) == QNNPACK_SOURCES[workers[w].place[1]].condition

WorkerFilename(w) == QNNPACK_SOURCES[workers[w].place[1]].filenames[workers[w].place[2]]

\* line 113
WorkerFilepath(w) == Join2("wrappers", WorkerFilename(w))

\* the lines printed at lines 117-130
WrapperText(condition, filename) ==
    IF condition = None
    THEN <<BANNER, "", "#include <" \o filename \o ">">>
    ELSE <<BANNER, "", "#if " \o condition[1], "#include <" \o filename \o ">",
           "#endif /* " \o condition[1] \o " */">>

ParInit ==
    /\ RunIdle
    /\ \E fs \in ParFileSystems : dirs = fs.dirs /\ files = fs.files
    /\ condition_idx = 1
    /\ filename_idx = 1
    /\ wrapper = None
    /\ gpc = "idle"
    /\ run_no = 0
    /\ first_run = None
    /\ opened = <<>>
    /\ target = {}
    /\ included = {}
    /\ \E p \in Places, q \in Places :
          /\ p # q
          /\ workers = <<[place |-> p, wpc |-> "isdir"], [place |-> q, wpc |-> "isdir"]>>

\* line 114
ParIsDir(w) ==
    /\ workers[w].wpc = "isdir"
    /\ workers' = [workers EXCEPT ![w].wpc = IF IsDir(dirs, Dirname(WorkerFilepath(w)))
                                             THEN "open" ELSE "makedirs"]
    /\ UNCHANGED <<run_vars, gen_vars>>

\* line 115
ParMakeDirs(w) ==
    /\ workers[w].wpc = "makedirs"
    /\ IF MakedirsRaises(dirs, files, Dirname(WorkerFilepath(w)))
       THEN /\ workers' = [workers EXCEPT ![w].wpc = "failed"]
            /\ UNCHANGED dirs
       ELSE /\ workers' = [workers EXCEPT ![w].wpc = "open"]
            /\ dirs' = dirs \cup Ancestors(Dirname(WorkerFilepath(w)))
    /\ UNCHANGED <<files, condition_idx, filename_idx, wrapper, gpc, run_no, first_run, opened,
                   target, included>>
    /\ UNCHANGED run_vars

\* lines 116-130
ParWrite(w) ==
    /\ workers[w].wpc = "open"
    /\ IF OpenRaises(dirs, files, WorkerFilepath(w))
       THEN /\ workers' = [workers EXCEPT ![w].wpc = "failed"]
            /\ UNCHANGED files
       ELSE /\ workers' = [workers EXCEPT ![w].wpc = "done"]
            /\ files' = (WorkerFilepath(w) :> WrapperText(WorkerCondition(w), WorkerFilename(w)))
                            @@ files
    /\ UNCHANGED <<dirs, condition_idx, filename_idx, wrapper, gpc, run_no, first_run, opened,
                   target, included>>
    /\ UNCHANGED run_vars

ParNext ==
    \/ \E w \in DOMAIN workers : ParIsDir(w)
    \/ \E w \in DOMAIN workers : ParMakeDirs(w)
    \/ \E w \in DOMAIN workers : ParWrite(w)

ParSpec == ParInit /\ [][ParNext]_vars

(***************************************************************************)
(* What the properties below speak of: the records in input order, the     *)
(* record a declaration was compiled from, and the record that raised.     *)
(* run appends one declaration per record and stops at the first record    *)
(* that raises, so declaration k comes from record k.                      *)
(***************************************************************************)
RECURSIVE Flatten(_)
Flatten(docs) == IF Len(docs) = 0 THEN <<>> ELSE Head(docs) \o Flatten(Tail(docs))

Records == Flatten(paths)

\* the records the loops have passed
Consumed == Len(Flatten(SubSeq(paths, 1, path_idx - 1))) + func_idx - 1

Compiled == 1..Len(declarations)

FailedRecord == Records[Len(declarations) + 1]

DeclaredName(rec) == Get(rec.name, rec.sig.name)

\* the place in the argument list of the argument written as token i
Rank(args, i) == Cardinality({q \in 1..i : ~args[q].star})

ArgumentTokens(args) == {i \in 1..Len(args) : ~args[i].star}

\* the text of the record is all there is to parse: no arguments key
SignatureOnly(rec) == rec.arguments = None

(***************************************************************************)
(* C1. For every record that compiles, run appends exactly one declaration *)
(* for it (as many declarations as records passed), and the declaration's  *)
(* schema_string is the func text as written, white space included, after  *)
(* the prefix "aten::".                                                    *)
(***************************************************************************)
C1_SchemaStringVerbatim ==
    /\ \A k \in Compiled :
          declarations[k].schema_string = "aten::" \o SigText(Records[k].sig)
    /\ pc \in {"loop", "raised"} => Len(declarations) = Consumed
    /\ pc = "returned" => Len(declarations) = Len(Records)

C1_Witness ==
    \E k \in Compiled :
        /\ Records[k].sig.form = "padded"
        /\ declarations[k].schema_string = "aten:: add_(Tensor(a!) self) -> Tensor(a!)  "

(***************************************************************************)
(* C2. In every declaration of a record without an arguments key, with     *)
(* inplace true and a first return whose type is not void, some argument   *)
(* is named self, has an annotation ending in "!", and has the type, name  *)
(* and annotation of the first return slot.                                *)
(***************************************************************************)
C2_InplaceSelfIsFirstReturn ==
    \A k \in Compiled :
        LET d == declarations[k]
        IN  (SignatureOnly(Records[k]) /\ d.inplace /\ d.return[1].type # "void")
            => \E j \in 1..Len(d.arguments) :
                  /\ d.arguments[j].name = "self"
                  /\ d.arguments[j].annotation # None
                  /\ EndsWith(d.arguments[j].annotation[1], "!")
                  /\ d.arguments[j].type = d.return[1].type
                  /\ d.arguments[j].name = d.return[1].name
                  /\ d.arguments[j].annotation = d.return[1].annotation

(***************************************************************************)
(* C3. No in-place signature with a non-void first return compiles when    *)
(* its argument list, of any length, has no argument named self or has a   *)
(* self argument whose annotation is missing or does not end in "!".       *)
(***************************************************************************)
LacksMutableSelf(args) ==
    \/ \A i \in ArgumentTokens(args) : args[i].name # "self"
    \/ \E i \in ArgumentTokens(args) : args[i].name = "self" /\ ~EndsWith(args[i].type, "!)")

C3_FailsWithoutMutableSelf ==
    \A k \in Compiled :
        ~ /\ declarations[k].inplace
          /\ Records[k].sig.rets[1].type # "void"
          /\ LacksMutableSelf(Records[k].sig.args)

(***************************************************************************)
(* C4. A record whose declaration name ends in _out does not compile when  *)
(* its variants key is anything but the function variant alone, and no     *)
(* record raises the _out error when its variants key is the function      *)
(* variant or is absent.                                                   *)
(***************************************************************************)
FunctionOnly == {None, Some(VStr("function")), Some(VList(<<"function">>))}

C4_OutNeedsFunctionVariant ==
    /\ \A k \in Compiled :
          EndsWith(DeclaredName(Records[k]), "_out") => Records[k].variants \in FunctionOnly
    /\ (pc = "raised" /\ raised[1].err = "parse_arguments:100")
          => FailedRecord.variants \notin FunctionOnly

(***************************************************************************)
(* C4, amended. As C4, with the empty variants list accepted like the      *)
(* function variant: an _out record compiles only with variants absent,    *)
(* empty, or the function variant alone, and the _out error is raised only *)
(* for a record named _out whose variants key is none of these.            *)
(***************************************************************************)
FunctionOnlyOrEmpty == FunctionOnly \cup {Some(VList(<<>>))}

C4_OutNeedsFunctionOrEmptyVariant ==
    /\ \A k \in Compiled :
          EndsWith(DeclaredName(Records[k]), "_out")
              => Records[k].variants \in FunctionOnlyOrEmpty
    /\ (pc = "raised" /\ raised[1].err = "parse_arguments:100")
          => /\ EndsWith(DeclaredName(FailedRecord), "_out")
             /\ FailedRecord.variants \notin FunctionOnlyOrEmpty
    /\ (pc = "raised" /\ EndsWith(DeclaredName(FailedRecord), "_out")
            /\ FailedRecord.sig.form = "plain"
            /\ FailedRecord.variants \notin FunctionOnlyOrEmpty)
          => raised[1].err = "parse_arguments:100"

C4_Witness ==
    /\ pc = "raised"
    /\ raised[1].err = "parse_arguments:100"
    /\ FailedRecord.sig.name = "foo"
    /\ FailedRecord.name = Some("bar_out")
    /\ FailedRecord.variants = Some(VList(<<"function", "method">>))

(***************************************************************************)
(* C5. In the declaration of an _out operator with n return slots, the     *)
(* first min(n, m) of its m arguments are marked output and no later one,  *)
(* wherever the * separator stands; no argument of another operator is     *)
(* marked output.                                                          *)
(***************************************************************************)
C5_LeadingArgumentsAreOutputs ==
    \A k \in Compiled :
        LET d == declarations[k]
        IN  SignatureOnly(Records[k])
            => \A j \in 1..Len(d.arguments) :
                  d.arguments[j].output
                      = (EndsWith(d.name, "_out") /\ j <= Len(Records[k].sig.rets))

(***************************************************************************)
(* C6. In every parsed argument list there is one argument per token that  *)
(* is not the lone "*", in the order written, and an argument is           *)
(* keyword-only exactly when a "*" token stands before it.                 *)
(***************************************************************************)
C6_KeywordOnlyAfterStar ==
    \A k \in Compiled :
        LET d    == declarations[k]
            args == Records[k].sig.args
        IN  SignatureOnly(Records[k])
            => /\ Len(d.arguments) = Cardinality(ArgumentTokens(args))
               /\ \A i \in ArgumentTokens(args) :
                     /\ d.arguments[Rank(args, i)].name = args[i].name
                     /\ d.arguments[Rank(args, i)].kwarg_only
                            = (\E q \in 1..(i - 1) : args[q].star)

C6_Witness ==
    \E k \in Compiled :
        /\ Records[k].sig.args = <<Arg("Tensor", "result"), Star, Arg("Tensor", "self")>>
        /\ Len(declarations[k].arguments) = 2
        /\ ~declarations[k].arguments[1].kwarg_only
        /\ declarations[k].arguments[2].kwarg_only
        /\ declarations[k].arguments[2].name = "self"

(***************************************************************************)
(* C7. A record whose signature text does not hold exactly one "->" does   *)
(* not compile: run raises on it and appends no declaration for it.        *)
(***************************************************************************)
RECURSIVE CountFrom(_, _, _)
CountFrom(s, sub, i) ==
    IF i + Len(sub) - 1 > Len(s) THEN 0
    ELSE IF SubSeq(s, i, i + Len(sub) - 1) = sub THEN 1 + CountFrom(s, sub, i + Len(sub))
    ELSE CountFrom(s, sub, i + 1)

Arrows(rec) == CountFrom(SigText(rec.sig), "->", 1)

C7_ExactlyOneArrow ==
    /\ \A k \in Compiled : Arrows(Records[k]) = 1
    /\ pc = "returned" => \A k \in 1..Len(Records) : Arrows(Records[k]) = 1
    /\ (pc = "raised" /\ FailedRecord.sig.form # "no_func" /\ Arrows(FailedRecord) # 1)
          => /\ raised[1].err \in {"run:243", "run:241"}
             /\ Len(declarations) = Consumed

C7_Witness ==
    /\ pc = "raised"
    /\ FailedRecord.sig.form = "two_arrows"
    /\ Arrows(FailedRecord) = 2
    /\ raised[1].err = "run:241"
    /\ declarations = <<>>

(***************************************************************************)
(* C8. inplace is true exactly when the function name starts with "__i",   *)
(* or ends with "_" and does not end with "__".                            *)
(***************************************************************************)
C8_InplaceNamingRule ==
    \A k \in Compiled :
        declarations[k].inplace
            = \/ StartsWith(Records[k].sig.name, "__i")
              \/ /\ EndsWith(Records[k].sig.name, "_")
                 /\ ~EndsWith(Records[k].sig.name, "__")

(***************************************************************************)
(* C8, amended. inplace is true exactly when the function name starts with *)
(* "__i", or ends with "_" after a character that is not "_": the          *)
(* one-character name "_" is not in-place.                                 *)
(***************************************************************************)
C8_InplaceNamingRuleTwoCharacters ==
    \A k \in Compiled :
        declarations[k].inplace
            = \/ StartsWith(Records[k].sig.name, "__i")
              \/ /\ Len(Records[k].sig.name) >= 2
                 /\ EndsWith(Records[k].sig.name, "_")
                 /\ ~EndsWith(Records[k].sig.name, "__")

C8_Witness ==
    \E k \in Compiled :
        /\ Records[k].sig.name = "_"
        /\ declarations[k].name = "_"
        /\ ~declarations[k].inplace

(***************************************************************************)
(* The literal table the properties of default texts are held against,     *)
(* written out for the texts the inputs use.  A default text reaches the   *)
(* table as written unless the argument's type rewrites it first: None     *)
(* after Tensor? and after Generator? or Generator*.                       *)
(***************************************************************************)
Rewritten(token) ==
    /\ token.default = Some("None")
    /\ \/ StartsWith(token.type, "Tensor?")
       \/ token.type \in {"Generator?", "Generator*"}

IntegerTexts == {"5", "-1", "+7"}

IntegerOf(text) == CASE text = "5" -> 5 [] text = "-1" -> 0 - 1 [] text = "+7" -> 7

FloatTexts == {"0.5", "1e-5", "2.", "1.50"}

FloatOf(text) ==
    CASE text = "0.5"  -> PyFloat(5, 0 - 1)
      [] text = "1e-5" -> PyFloat(1, 0 - 5)
      [] text = "2."   -> PyFloat(2, 0)
      [] text = "1.50" -> PyFloat(15, 0 - 1)

Inner(text) == SubSeq(text, 2, Len(text) - 1)

\* the table with integers the only numbers and a list closed by its last character
LiteralTable(text) ==
    CASE text = "True"    -> PyBool(TRUE)
      [] text = "False"   -> PyBool(FALSE)
      [] text = "nullptr" -> PyStr("nullptr")
      [] text = "[]"      -> PyStr("{}")
      [] text = "None"    -> PyStr("c10::nullopt")
      [] text = "Mean"    -> PyStr("Reduction::Mean")
      [] text \in IntegerTexts -> PyInt(IntegerOf(text))
      [] Len(text) > 2 /\ StartsWith(text, "[") /\ EndsWith(text, "]")
                          -> PyStr("{" \o Inner(text) \o "}")
      [] OTHER            -> PyStr(text)

\* the table with floats, and a list being any text from "[" with a "]" later on
LiteralTableWithFloats(text) ==
    IF text \in FloatTexts THEN FloatOf(text)
    ELSE IF Len(text) > 2 /\ StartsWith(text, "[") /\ CountFrom(text, "]", 2) > 0
         THEN PyStr("{" \o Inner(text) \o "}")
    ELSE LiteralTable(text)

DefaultTokens(rec) ==
    {i \in ArgumentTokens(rec.sig.args) :
        rec.sig.args[i].default # None /\ ~Rewritten(rec.sig.args[i])}

DefaultOf(k, i) == declarations[k].arguments[Rank(Records[k].sig.args, i)].default

(***************************************************************************)
(* C9. No record with the default text true or false compiles, and every   *)
(* other default text is decoded by the literal table: True and False to   *)
(* the booleans, nullptr verbatim, [] to {}, [c] to {c}, None to           *)
(* c10::nullopt, Mean to Reduction::Mean, an integer text to the integer,  *)
(* any other text unchanged.                                               *)
(***************************************************************************)
C9_DefaultLiteralTable ==
    \A k \in Compiled :
        SignatureOnly(Records[k])
        => \A i \in DefaultTokens(Records[k]) :
              /\ Records[k].sig.args[i].default[1] \notin {"true", "false"}
              /\ DefaultOf(k, i) = Some(LiteralTable(Records[k].sig.args[i].default[1]))

(***************************************************************************)
(* C9, amended. As C9, with two rows read as the code decodes them: a text *)
(* that is no integer and parses as a float gives that float, and a text   *)
(* that starts with "[" and holds a "]" anywhere later gives "{", the text *)
(* without its first and last characters, "}".                             *)
(***************************************************************************)
C9_DefaultLiteralTableWithFloats ==
    /\ \A k \in Compiled :
          SignatureOnly(Records[k])
          => \A i \in DefaultTokens(Records[k]) :
                /\ Records[k].sig.args[i].default[1] \notin {"true", "false"}
                /\ DefaultOf(k, i)
                     = Some(LiteralTableWithFloats(Records[k].sig.args[i].default[1]))
    /\ (pc = "raised" /\ raised[1].err \in {"parse_default:43", "parse_default:46"})
          => \E i \in DefaultTokens(FailedRecord) :
                FailedRecord.sig.args[i].default[1] \in {"true", "false"}

C9_Witness ==
    \E k \in Compiled :
        /\ Records[k].sig.args = <<ArgD("float", "x", "0.5")>>
        /\ declarations[k].arguments[1].default = Some([tag |-> "float", b |-> FALSE, n |-> 5, e |-> 0 - 1, s |-> ""])

(***************************************************************************)
(* C10. An argument written with the type Tensor?, with or without an      *)
(* alias annotation after it, and the default text None has the default {} *)
(* and never c10::nullopt.                                                 *)
(***************************************************************************)
NullableTensorWritten(type) ==
    \/ type = "Tensor?"
    \/ StartsWith(type, "Tensor?(") /\ EndsWith(type, ")")

ArgumentAt(k, i) == declarations[k].arguments[Rank(Records[k].sig.args, i)]

TypeWritten(k, i) == Records[k].sig.args[i].type

(***************************************************************************)
(* The written type with its alias annotation taken off and whatever       *)
(* stands after the annotation kept.                                       *)
(***************************************************************************)
Unannotated(type) ==
    IF StartsWith(type, "Tensor") /\ Find(type, "(", 1) # 0 /\ Find(type, ")", 1) # 0
    THEN SubSeq(type, 1, Find(type, "(", 1) - 1)
            \o SubSeq(type, Find(type, ")", 1) + 1, Len(type))
    ELSE type

(***************************************************************************)
(* C11. For every parsed argument, is_nullable is true exactly when the    *)
(* type token written in the signature, its alias annotation aside, ends   *)
(* with "?", and the stored type never ends with "?".                      *)
(***************************************************************************)
C11_NullableIffQuestionMark ==
    \A k \in Compiled :
        SignatureOnly(Records[k])
        => \A i \in ArgumentTokens(Records[k].sig.args) :
              /\ ArgumentAt(k, i).is_nullable
                    = EndsWith(Unannotated(TypeWritten(k, i)), "?")
              /\ ~EndsWith(ArgumentAt(k, i).type, "?")

(***************************************************************************)
(* A fixed-length integer list written in t up to place j: "int[", one or  *)
(* more digits and "]" at j.                                               *)
(***************************************************************************)
FixedListUpTo(t, j) ==
    /\ StartsWith(t, "int[")
    /\ j > 5
    /\ j <= Len(t)
    /\ CharAt(t, j) = "]"
    /\ \A q \in 5..(j - 1) : IsDigit(CharAt(t, q))

LengthWritten(t, j) == DecVal(SubSeq(t, 5, j - 1))

Unquestioned(type) == RStripChar(type, "?")

(***************************************************************************)
(* C12. An argument carries a size exactly when its written type is a      *)
(* fixed-length integer list int[N]; the size is then N and the stored     *)
(* type IntList, and int[] carries no size.                                *)
(***************************************************************************)
C12_SizeOnlyForFixedList ==
    \A k \in Compiled :
        SignatureOnly(Records[k])
        => \A i \in ArgumentTokens(Records[k].sig.args) :
              LET t == Unquestioned(TypeWritten(k, i))
              IN  /\ (ArgumentAt(k, i).size # None) = FixedListUpTo(t, Len(t))
                  /\ FixedListUpTo(t, Len(t))
                        => /\ ArgumentAt(k, i).size = Some(LengthWritten(t, Len(t)))
                           /\ ArgumentAt(k, i).type = "IntList"

(***************************************************************************)
(* C12, amended. An argument carries a size exactly when its written type, *)
(* trailing "?" aside, begins with int[N]: what follows the "]" is not     *)
(* looked at.  The size is then N and the stored type IntList; int[]       *)
(* carries no size.                                                        *)
(***************************************************************************)
C12_SizeForFixedListPrefix ==
    \A k \in Compiled :
        SignatureOnly(Records[k])
        => \A i \in ArgumentTokens(Records[k].sig.args) :
              LET t == Unquestioned(TypeWritten(k, i))
              IN  /\ (ArgumentAt(k, i).size # None)
                        = (\E j \in 6..Len(t) : FixedListUpTo(t, j))
                  /\ \A j \in 6..Len(t) :
                        FixedListUpTo(t, j)
                        => /\ ArgumentAt(k, i).size = Some(LengthWritten(t, j))
                           /\ ArgumentAt(k, i).type = "IntList"
                  /\ t = "int[]" => ArgumentAt(k, i).size = None

C12_Witness ==
    \E k \in Compiled :
        /\ Records[k].sig.args = <<Arg("int[10]", "x")>>
        /\ declarations[k].arguments[1].size = Some(10)
        /\ declarations[k].arguments[1].type = "IntList"

AliasTable(t) ==
    CASE t = "Tensor[]" -> "TensorList"
      [] t = "int[]"    -> "IntList"
      [] t = "int"      -> "int64_t"
      [] t = "float"    -> "double"
      [] OTHER          -> t

(***************************************************************************)
(* C13. Every argument type, its annotation and its "?" taken off, is      *)
(* stored through the alias table: Tensor[] as TensorList, int[] as        *)
(* IntList, int as int64_t, float as double, Generator? as the generator   *)
(* pointer type, and every other type unchanged.                           *)
(***************************************************************************)
C13_TypeAliasTable ==
    \A k \in Compiled :
        SignatureOnly(Records[k])
        => \A i \in ArgumentTokens(Records[k].sig.args) :
              ArgumentAt(k, i).type
                 = IF TypeWritten(k, i) = "Generator?" THEN "Generator *"
                   ELSE AliasTable(Unquestioned(Unannotated(TypeWritten(k, i))))

(***************************************************************************)
(* C14. A declaration carries, for each optional key the record omits,     *)
(* the default: variants the function variant only, requires_tensor,       *)
(* matches_jit_signature, cpu_half and deprecated false, device_guard      *)
(* true, the dispatch entry the declaration's own name, and name the       *)
(* signature's function name; for a key the record gives, the value given. *)
(***************************************************************************)
Carries(given, default, carried) ==
    IF given = None THEN carried = default ELSE carried = given[1]

C14_OptionalFieldDefaults ==
    \A k \in Compiled :
        LET rec == Records[k]
            d   == declarations[k]
        IN  /\ Carries(rec.name, rec.sig.name, d.name)
            /\ Carries(rec.variants, VList(<<"function">>), d.variants)
            /\ Carries(rec.requires_tensor, FALSE, d.requires_tensor)
            /\ Carries(rec.matches_jit_signature, FALSE, d.matches_jit_signature)
            /\ Carries(rec.cpu_half, FALSE, d.cpu_half)
            /\ Carries(rec.deprecated, FALSE, d.deprecated)
            /\ Carries(rec.device_guard, TRUE, d.device_guard)
            /\ Carries(rec.dispatch, DStr(d.name), d.type_method_definition_dispatch)

C14_Witness ==
    \E k \in Compiled :
        /\ Records[k] = [FieldBase("foo") EXCEPT !.device_guard = Some(FALSE)]
        /\ ~declarations[k].device_guard
        /\ declarations[k].name = "foo"
        /\ declarations[k].variants = VList(<<"function">>)
        /\ ~declarations[k].requires_tensor
        /\ declarations[k].type_method_definition_dispatch = DStr("foo")

(***************************************************************************)
(* C15. aten_sparse is true exactly when the record gives a dispatch       *)
(* mapping with at least one key that contains "Sparse"; it is false when  *)
(* the record gives no dispatch key, whatever the operator is called.      *)
(***************************************************************************)
SparseKey(dispatch) ==
    /\ dispatch # None
    /\ dispatch[1].kind = "dict"
    /\ \E i \in 1..Len(dispatch[1].keys) : CountFrom(dispatch[1].keys[i], "Sparse", 1) > 0

C15_SparseDispatchByKey ==
    \A k \in Compiled :
        /\ declarations[k].aten_sparse = SparseKey(Records[k].dispatch)
        /\ Records[k].dispatch = None => ~declarations[k].aten_sparse

C15_Witness ==
    \E k \in Compiled :
        /\ Records[k].sig.name = "Sparse"
        /\ Records[k].dispatch = Some(DDict(<<"CPU", "SparseCPU">>, <<"foo_cpu", "foo_sparse">>))
        /\ declarations[k].aten_sparse

(***************************************************************************)
(* C16. run is fail-fast: once a record raises, run has raised and returns *)
(* nothing, not even the declarations of the records before it, the record *)
(* that raised is the first that does not compile, and no step parses a    *)
(* later record; run returns only when every record compiled.              *)
(***************************************************************************)
WellFormed(rec) == Declare(FuncOf(rec)).ok

C16_FailFast ==
    /\ pc = "raised"
          => /\ result = None
             /\ Len(declarations) = Consumed
             /\ \A j \in 1..Len(declarations) : WellFormed(Records[j])
             /\ ~WellFormed(FailedRecord)
             /\ ~ENABLED Next
    /\ pc = "returned"
          => /\ \A j \in 1..Len(Records) : WellFormed(Records[j])
             /\ result = Some(declarations)
    /\ (pc = "loop" /\ Consumed < Len(Records) /\ Len(declarations) = Consumed)
          => result = None

C16_Witness ==
    /\ pc = "raised"
    /\ Len(Records) = 3
    /\ Len(declarations) = 1
    /\ WellFormed(Records[1])
    /\ ~WellFormed(Records[2])
    /\ WellFormed(Records[3])
    /\ result = None

(***************************************************************************)
(* The entries of the table in the order the loops of lines 111-112 take   *)
(* them, and the lines a wrapper is to hold.                               *)
(***************************************************************************)
EntriesOf(i) ==
    [j \in 1..Len(QNNPACK_SOURCES[i].filenames) |->
        [condition |-> QNNPACK_SOURCES[i].condition,
         filename  |-> QNNPACK_SOURCES[i].filenames[j]]]

RECURSIVE EntriesFrom(_)
EntriesFrom(i) ==
    IF i > Len(QNNPACK_SOURCES) THEN <<>> ELSE EntriesOf(i) \o EntriesFrom(i + 1)

Entries == EntriesFrom(1)

WrapperPath(e) == "wrappers/" \o e.filename

WrapperLines(e) ==
    IF e.condition = None
    THEN <<BANNER, "", "#include <" \o e.filename \o ">">>
    ELSE <<BANNER, "", "#if " \o e.condition[1], "#include <" \o e.filename \o ">",
           "#endif /* " \o e.condition[1] \o " */">>

\* the places in opened of the wrappers the current run has written and closed
Closed == {i \in 1..Len(opened) : i < Len(opened) \/ wrapper = None}

Finished == gpc \in {"done", "preprocessed"}

(***************************************************************************)
(* C17. For every entry of the table the wrapper written at                *)
(* wrappers/<file> holds exactly the banner line, an empty line, and then  *)
(* the one line #include <file> when the condition is None, or else the    *)
(* three lines #if <condition>, #include <file>, #endif /* <condition> */. *)
(***************************************************************************)
C17_WrapperLines ==
    /\ \A i \in Closed :
          /\ i <= Len(Entries)
          /\ opened[i] = WrapperPath(Entries[i])
          /\ files[opened[i]] = WrapperLines(Entries[i])
    /\ Finished => \A i \in 1..Len(Entries) :
                      /\ WrapperPath(Entries[i]) \in DOMAIN files
                      /\ files[WrapperPath(Entries[i])] = WrapperLines(Entries[i])

C17_Witness ==
    /\ gpc = "done"
    /\ files["wrappers/q8conv/4x8-aarch32-neon.S"]
          = <<"/* Auto-generated by generate-wrappers.py script. Do not modify */",
              "",
              "#if defined(__arm__)",
              "#include <q8conv/4x8-aarch32-neon.S>",
              "#endif /* defined(__arm__) */">>
    /\ files["wrappers/x8lut/scalar.c"]
          = <<"/* Auto-generated by generate-wrappers.py script. Do not modify */",
              "",
              "#include <x8lut/scalar.c>">>

(***************************************************************************)
(* C18. A run of the script in the directory an earlier complete run left  *)
(* does not fail, and leaves every wrapper with the lines the first run    *)
(* wrote.                                                                  *)
(***************************************************************************)
C18_RerunIdentical ==
    /\ run_no >= 2 => gpc # "failed"
    /\ (run_no >= 2 /\ Finished)
          => /\ first_run # None
             /\ \A i \in 1..Len(Entries) :
                   files[WrapperPath(Entries[i])] = first_run[1][WrapperPath(Entries[i])]
             /\ DOMAIN files = DOMAIN first_run[1]

C18_Witness ==
    /\ run_no = 2
    /\ gpc = "done"
    /\ Len(opened) = Len(Entries)
    /\ first_run # None
    /\ Len(files["wrappers/x8zip/xm-sse2.c"]) = 5
    /\ Len(first_run[1]["wrappers/x8zip/xm-sse2.c"]) = 5

(***************************************************************************)
(* C19. No file path occurs twice in QNNPACK_SOURCES, within one list or   *)
(* across two, so a run opens no path twice and a complete run has written *)
(* one wrapper per entry.                                                  *)
(***************************************************************************)
C19_PathsUnique ==
    /\ Cardinality({Entries[i].filename : i \in 1..Len(Entries)}) = Len(Entries)
    /\ Cardinality({opened[i] : i \in 1..Len(opened)}) = Len(opened)
    /\ Finished
          => /\ Len(opened) = Len(Entries)
             /\ {opened[i] : i \in 1..Len(opened)}
                   = {WrapperPath(Entries[i]) : i \in 1..Len(Entries)}

C19_Witness ==
    /\ gpc = "done"
    /\ run_no = 1
    /\ Len(opened) = 85
    /\ Cardinality(DOMAIN files) = 85

(***************************************************************************)
(* C20. The conditions of the table are pairwise disjoint: on a target     *)
(* that defines exactly one of the architecture macros at most one of the  *)
(* conditions other than None holds.                                       *)
(***************************************************************************)
Conditions ==
    {QNNPACK_SOURCES[i].condition[1] :
        i \in {j \in 1..Len(QNNPACK_SOURCES) : QNNPACK_SOURCES[j].condition # None}}

Holding == {c \in Conditions : Holds(c, target)}

C20_ConditionsDisjoint ==
    (gpc = "preprocessed" /\ Cardinality(target) = 1) => Cardinality(Holding) <= 1

(***************************************************************************)
(* C20, amended. The conditions overlap: on a target that defines only     *)
(* __arm__ both the AArch32/AArch64 condition and the AArch32 condition    *)
(* hold, on one that defines only __aarch64__ both the AArch32/AArch64     *)
(* condition and the AArch64 condition, and on one that defines a single   *)
(* x86 macro the x86 condition alone; the target includes the files of     *)
(* exactly the entries whose condition is None or holds.                   *)
(***************************************************************************)
HoldingOn(macro) ==
    CASE macro = "__arm__"
           -> {"defined(__arm__) || defined(__aarch64__)", "defined(__arm__)"}
      [] macro = "__aarch64__"
           -> {"defined(__arm__) || defined(__aarch64__)", "defined(__aarch64__)"}
      [] OTHER
           -> {"defined(__i386__) || defined(__i686__) || defined(__x86_64__)"}

C20_ConditionsOverlapOnArm ==
    (gpc = "preprocessed" /\ Cardinality(target) = 1)
    => \A m \in target :
          /\ Holding = HoldingOn(m)
          /\ \A i \in 1..Len(Entries) :
                (WrapperPath(Entries[i]) \in included)
                   = \/ Entries[i].condition = None
                     \/ Entries[i].condition[1] \in HoldingOn(m)

C20_Witness ==
    /\ gpc = "preprocessed"
    /\ target = {"__arm__"}
    /\ "wrappers/q8conv/4x8-neon.c" \in included
    /\ "wrappers/q8conv/4x8-aarch32-neon.S" \in included
    /\ "wrappers/q8conv/8x8-aarch64-neon.S" \notin included
    /\ "wrappers/q8conv/4x4c2-sse2.c" \notin included

(***************************************************************************)
(* C21. When os.makedirs or open raises at the k-th entry the script has   *)
(* stopped: no statement runs after it, the wrappers of the k-1 entries    *)
(* before it are on disk with all their lines, and at every step of a run  *)
(* the only file created or changed is the wrapper of the entry the loop   *)
(* is at, so the wrappers of the later entries are as they were.           *)
(***************************************************************************)
Touched(before, after) ==
    {p \in DOMAIN after : p \notin DOMAIN before \/ after[p] # before[p]}

C21_StopsKeepingEarlier ==
    /\ [](gpc = "failed"
            => /\ ~ENABLED GenNext
               /\ Len(opened) < Len(Entries)
               /\ \A i \in 1..Len(opened) :
                     /\ opened[i] = WrapperPath(Entries[i])
                     /\ opened[i] \in DOMAIN files
                     /\ files[opened[i]] = WrapperLines(Entries[i]))
    /\ [][/\ DOMAIN files \subseteq DOMAIN files'
          /\ \A p \in Touched(files, files') :
                /\ wrapper' = Some(p)
                /\ p = WrapperPath(Entries[Len(opened')])]_vars

C21_Witness ==
    /\ gpc = "failed"
    /\ Len(opened) = 6
    /\ "wrappers/sgemm/6x8-psimd.c" \in dirs
    /\ files["wrappers/requantization/q31-scalar.c"]
          = <<BANNER, "", "#include <requantization/q31-scalar.c>">>
    /\ files["wrappers/x8lut/scalar.c"] = <<"stale">>
    /\ "wrappers/u8lut32norm/scalar.c" \notin DOMAIN files

(***************************************************************************)
(* C22. An in-place signature with exactly one argument named self, whose  *)
(* annotation ends in "!" and whose type, name and annotation are those of *)
(* the first return slot, is not turned down by the check of self against  *)
(* the return slots, at whatever place of the argument list self stands.   *)
(***************************************************************************)
SelfTokens(args) == {i \in ArgumentTokens(args) : args[i].name = "self"}

\* self is written as the first return slot is, a Tensor the slot names self
SelfIsFirstReturn(rec) ==
    /\ IsInplaceName(rec.sig.name)
    /\ rec.sig.form = "plain"
    /\ Cardinality(SelfTokens(rec.sig.args)) = 1
    /\ \A i \in SelfTokens(rec.sig.args) :
          /\ EndsWith(rec.sig.args[i].type, "!)")
          /\ StartsWith(rec.sig.args[i].type, "Tensor(")
          /\ rec.sig.args[i].default = None
          /\ rec.sig.args[i].type = rec.sig.rets[1].type
          /\ rec.sig.rets[1].name \in {None, Some("self")}

SelfCheckSites ==
    {"parse_arguments:169:IndexError", "parse_arguments:169", "parse_arguments:171",
     "parse_arguments:172"}

C22_SelfComparedWithFirstReturn ==
    (pc = "raised" /\ SelfIsFirstReturn(FailedRecord)) => raised[1].err \notin SelfCheckSites

(***************************************************************************)
(* C23. No record whose argument list holds the lone "*" more than once    *)
(* compiles, and the assertion on "*" (line 114) fails only for an         *)
(* argument list that holds it more than once.                             *)
(***************************************************************************)
Stars(args) == {i \in 1..Len(args) : args[i].star}

C23_StarAtMostOnce ==
    /\ \A k \in Compiled : Cardinality(Stars(Records[k].sig.args)) <= 1
    /\ (pc = "raised" /\ raised[1].err = "parse_arguments:114")
          => Cardinality(Stars(FailedRecord.sig.args)) >= 2

C23_Witness ==
    /\ pc = "raised"
    /\ raised[1].err = "parse_arguments:114"
    /\ FailedRecord.sig.args = <<Arg("Tensor", "self"), Star, Star>>
    /\ declarations = <<>>

(***************************************************************************)
(* C24. When the one return slot and the one argument of a signature are   *)
(* written with the same type token, the declaration stores the same type  *)
(* for the slot as for the argument.                                       *)
(***************************************************************************)
SameTokenTwice(rec) ==
    /\ SignatureOnly(rec)
    /\ ~EndsWith(DeclaredName(rec), "_out")
    /\ Len(rec.sig.args) = 1
    /\ ~rec.sig.args[1].star
    /\ Len(rec.sig.rets) = 1
    /\ rec.sig.rets[1].type = rec.sig.args[1].type

C24_ReturnTypeAsArgumentType ==
    \A k \in Compiled :
        SameTokenTwice(Records[k])
        => declarations[k].return[1].type = declarations[k].arguments[1].type

(***************************************************************************)
(* C25. In the Return records of a declaration that is not of an _out      *)
(* operator: a slot written with a name has it as name and as field_name;  *)
(* a slot written without one has no field_name and is named self when     *)
(* the declaration is in-place and the slot's type is Tensor (its          *)
(* annotation then ends in "!"), and otherwise result when the return      *)
(* specification has one slot and result<i>, i counting the slots from 0,  *)
(* when it has several.  Line 193 raises only for an in-place record with  *)
(* an unnamed Tensor slot whose annotation does not end in "!".            *)
(***************************************************************************)
PositionalName(n, i) == IF n = 1 THEN "result" ELSE "result" \o Str(i - 1)

SlotNamed(d, n, slot, written, i) ==
    IF written.name # None
    THEN /\ slot.name = written.name[1]
         /\ slot.field_name = written.name
    ELSE /\ slot.field_name = None
         /\ IF d.inplace /\ slot.type = "Tensor"
            THEN /\ slot.name = "self"
                 /\ slot.annotation # None
                 /\ EndsWith(slot.annotation[1], "!")
            ELSE slot.name = PositionalName(n, i)

\* an unnamed slot written Tensor, bare or with an annotation that is not mutable
ImmutableTensorSlot(written) ==
    /\ written.name = None
    /\ written.type = "Tensor" \/ StartsWith(written.type, "Tensor(")
    /\ ~Contains(written.type, "!)")

OutputArguments(d) == SelectSeq(d.arguments, LAMBDA a : a.output)

FieldNamesHandedOn(d, outs, rets) ==
    /\ \A i \in 1..Len(rets) :
          rets[i].name # None => (i <= Len(outs) /\ outs[i].field_name = rets[i].name)
    /\ \A i \in 1..Len(outs) :
          (i <= Len(rets) /\ rets[i].name = None) => outs[i].field_name = None
    /\ Len(outs) <= Len(rets)
    /\ d.return = outs

C27_ReturnCountIsSlotCount ==
    \A k \in Compiled : Len(declarations[k].return) = Len(Records[k].sig.rets)

(***************************************************************************)
(* C28. When run has returned or raised, the declarations compiled are,    *)
(* in input order (the documents in the order given, the records of a      *)
(* document in its order), the declarations the records give when each is  *)
(* compiled by itself; when run returns, every record compiled and the     *)
(* result is that one flat sequence, one declaration per record.           *)
(***************************************************************************)
CompiledAlone(rec) == Declare(FuncOf(rec)).val

C28_FlatInInputOrder ==
    /\ Len(declarations) <= Len(Records)
    /\ pc \in {"returned", "raised"}
          => \A k \in Compiled : declarations[k] = CompiledAlone(Records[k])
    /\ pc = "returned"
          => /\ result = Some(declarations)
             /\ Len(result[1]) = Len(Records)

C28_Witness ==
    /\ pc = "returned"
    /\ Len(paths) = 2
    /\ Len(paths[1]) = 1
    /\ Len(paths[2]) = 2
    /\ Len(result[1]) = 3
    /\ result[1][1].name = "add_"
    /\ result[1][2].name = "add"
    /\ result[1][3].name = "add_"
    /\ result[1][2] = CompiledAlone(paths[2][1])

(***************************************************************************)
(* C29. When run has raised, what it reports holds the record that raised  *)
(* as it was read and the declaration with the fields assigned before the  *)
(* place that raised: the mode always, the schema_string as soon as the    *)
(* record has a func text, the name and the inplace flag once the text     *)
(* was cut at "->" and "(" and nothing after them; and the record is the   *)
(* first in input order that does not compile.                             *)
(***************************************************************************)
\* the places that raise before declaration['name'] is assigned at line 247
HeadSites == {"run:241", "run:243", "run:244", "run:245", "run:245:IndexError"}

FieldsAssignedBefore(site) ==
    IF site = "run:239" THEN {"mode"}
    ELSE IF site \in HeadSites THEN {"mode", "schema_string"}
    ELSE {"mode", "schema_string", "name", "inplace"}

PartialDeclaration(rec, site, d) ==
    /\ DOMAIN d = FieldsAssignedBefore(site)
    /\ d.mode = "native"
    /\ (site = "run:239") = (rec.sig.form = "no_func")
    /\ "schema_string" \in DOMAIN d => d.schema_string = "aten::" \o SigText(rec.sig)
    /\ "name" \in DOMAIN d
          => /\ d.name = DeclaredName(rec)
             /\ d.inplace = IsInplaceName(rec.sig.name)

C29_ReportCarriesRecordAndPartial ==
    pc = "raised"
    => /\ raised # None
       /\ Len(declarations) < Len(Records)
       /\ raised[1].func = FuncOf(FailedRecord)
       /\ PartialDeclaration(FailedRecord, raised[1].err, raised[1].declaration)
       /\ ~WellFormed(FailedRecord)
       /\ \A j \in 1..Len(declarations) : WellFormed(Records[j])

C29_Witness ==
    /\ pc = "raised"
    /\ Len(Records) = 3
    /\ Len(declarations) = 1
    /\ raised[1].func.func = Some("add_(Tensor self, Tensor other) -> Tensor(a!)")
    /\ raised[1].err = "parse_arguments:166"
    /\ raised[1].declaration
          = [mode |-> "native",
             schema_string |-> "aten::add_(Tensor self, Tensor other) -> Tensor(a!)",
             name |-> "add_", inplace |-> TRUE]
    /\ ~WellFormed(Records[3])

====
